---- MODULE Spec2Model ----
(***************************************************************************)
(* Model of the ingestion and analytical-query core of helios-rag-crewai   *)
(* (app/backend/ingest.py, queries.py, utils/common.py, routers,           *)
(* database/connection.py).                                                *)
(*                                                                         *)
(* Conventions                                                             *)
(*  - text is a sequence of one-character strings, so that upper(),        *)
(*    lower(), replace(), strip() and slicing are computed, not assumed;   *)
(*  - a stored SQL value is NULL (the empty tuple) or V(x) (a 1-tuple);    *)
(*  - a Python float is a fixed-point number in tenths (30.5 is 305);      *)
(*    Python/SQL integers are plain integers;                              *)
(*  - a JSON value of a feed record is a record [k, n, s]: its kind, its   *)
(*    number and its text.                                                 *)
(***************************************************************************)
EXTENDS Integers, Sequences, FiniteSets, TLC

VARIABLES
    commodities,   \* table commodities: sequence of rows, id = position
    countries,     \* table countries: sequence of rows, id = position
    facts,         \* the five fact tables: table name -> sequence of rows
    raw_ingest,    \* table raw_ingest: sequence of rows
    pc,            \* position of the ingestion run (main / ingest_endpoint)
    feed,          \* index into ENDPOINTS of the feed being ingested
    data,          \* resp.json() of the feed being ingested (record ids)
    idx,           \* index of the next record of data to process
    now,           \* ingested_at stamp of the pass (passes begun so far)
    runs,          \* ingestion runs started so far
    budget,        \* records the feeds may still deliver
    faults,        \* failures the environment may still inject
    fetched,       \* feeds whose fetch was attempted in this run
    rawStart,      \* Len(raw_ingest) when the pass began
    rawFailed,     \* audit inserts of this pass that raised
    lastCall,      \* arguments and outcome of the last record's resolution
    res,           \* the resolvers of the concurrent-resolution scenario
    qres           \* the last query evaluated and its result

vars == <<commodities, countries, facts, raw_ingest, pc, feed, data, idx, now,
          runs, budget, faults, fetched, rawStart, rawFailed, lastCall, res, qres>>

----------------------------------------------------------------------------
(* Text *)

Lc == <<"a","b","c","d","e","f","g","h","i","j","k","l","m",
        "n","o","p","q","r","s","t","u","v","w","x","y","z">>
Uc == <<"A","B","C","D","E","F","G","H","I","J","K","L","M",
        "N","O","P","Q","R","S","T","U","V","W","X","Y","Z">>
Digits == <<"0","1","2","3","4","5","6","7","8","9">>

IndexIn(c, alphabet) ==
    IF \E i \in DOMAIN alphabet : alphabet[i] = c
    THEN CHOOSE i \in DOMAIN alphabet : alphabet[i] = c
    ELSE 0

\* str.upper() / str.lower(), character by character
UpperCh(c) == IF IndexIn(c, Lc) # 0 THEN Uc[IndexIn(c, Lc)] ELSE c
LowerCh(c) == IF IndexIn(c, Uc) # 0 THEN Lc[IndexIn(c, Uc)] ELSE c
Upper(s) == [i \in DOMAIN s |-> UpperCh(s[i])]
Lower(s) == [i \in DOMAIN s |-> LowerCh(s[i])]

\* s[:n]
Prefix(s, n) == SubSeq(s, 1, IF Len(s) < n THEN Len(s) ELSE n)

\* s.replace(a, b) for one-character a and b
ReplaceCh(s, a, b) == [i \in DOMAIN s |-> IF s[i] = a THEN b ELSE s[i]]

\* str.strip()
RECURSIVE LStrip(_)
LStrip(s) == IF s # <<>> /\ Head(s) = " " THEN LStrip(Tail(s)) ELSE s
RECURSIVE RStrip(_)
RStrip(s) ==
    IF s # <<>> /\ s[Len(s)] = " " THEN RStrip(SubSeq(s, 1, Len(s) - 1)) ELSE s
Strip(s) == RStrip(LStrip(s))

IsDigits(s) == s # <<>> /\ \A i \in DOMAIN s : IndexIn(s[i], Digits) # 0

RECURSIVE DigitsVal(_)
DigitsVal(s) ==
    IF s = <<>> THEN 0
    ELSE DigitsVal(SubSeq(s, 1, Len(s) - 1)) * 10 + (IndexIn(s[Len(s)], Digits) - 1)

----------------------------------------------------------------------------
(* Stored values and JSON values *)

NULL == <<>>
V(x) == <<x>>

None     == [k |-> "none",  n |-> 0, s |-> <<>>]
JInt(i)  == [k |-> "int",   n |-> i, s |-> <<>>]
JFloat(t) == [k |-> "float", n |-> t, s |-> <<>>]   \* t in tenths
JStr(t)  == [k |-> "str",   n |-> 0, s |-> t]
JBool(b) == [k |-> "bool",  n |-> IF b THEN 1 ELSE 0, s |-> <<>>]
JList    == [k |-> "list",  n |-> 0, s |-> <<>>]

\* float("inf"), which json.loads returns for Infinity and for a number
\* beyond the range of a double (1e999): it stands above every finite value
Infinity == 1000000000
JInf     == [k |-> "inf",   n |-> Infinity, s |-> <<>>]

\* an exception that leaves a conversion: neither except clause of
\* safe_float / safe_int names OverflowError
OverflowError == <<"OverflowError", "raised">>

\* dict.get(field): None when the record has no such field
Get(r, f) == IF f \in DOMAIN r THEN r[f] ELSE None

\* Python truthiness of a JSON value (the operand of `x or y`, `if x`)
Truthy(v) ==
    CASE v.k = "none"  -> FALSE
      [] v.k = "str"   -> v.s # <<>>
      [] v.k = "list"  -> FALSE
      [] OTHER         -> v.n # 0

\* the value SQLite stores for a parameter bound without coercion
Bind(v) ==
    CASE v.k = "none"  -> NULL
      [] v.k = "str"   -> V(v.s)
      [] OTHER         -> V(v.n)

\* an optional sign followed by the rest
Unsigned(s) == IF s # <<>> /\ Head(s) \in {"+", "-"} THEN Tail(s) ELSE s
Sign(s) == IF s # <<>> /\ Head(s) = "-" THEN -1 ELSE 1

\* int(str): ValueError (NULL here) unless [sign] digits, blanks stripped
ParseInt(s) ==
    LET t == Strip(s) IN
    IF IsDigits(Unsigned(t)) THEN V(Sign(t) * DigitsVal(Unsigned(t))) ELSE NULL

\* float(str), in tenths: [sign] digits [. digit]; ValueError (NULL) otherwise
ParseFloat(s) ==
    LET t == Unsigned(Strip(s))
        sg == Sign(Strip(s))
        dot == IndexIn(".", t)
    IN  IF dot = 0
        THEN IF IsDigits(t) THEN V(sg * DigitsVal(t) * 10) ELSE NULL
        ELSE LET ip == SubSeq(t, 1, dot - 1)
                 fp == SubSeq(t, dot + 1, Len(t))
             IN  IF IsDigits(ip) /\ IsDigits(fp) /\ Len(fp) = 1
                 THEN V(sg * (DigitsVal(ip) * 10 + DigitsVal(fp)))
                 ELSE NULL

\* trunc toward zero of a number in tenths
Trunc(t) == IF t >= 0 THEN t \div 10 ELSE -((-t) \div 10)

IsBlankish(value) ==
    value.k = "none" \/ (value.k = "str" /\ value.s \in {<<"n","u","l","l">>, <<>>})

\* utils/common.py safe_float
safe_float(value) ==
    IF IsBlankish(value) THEN NULL
    ELSE CASE value.k = "int"   -> V(value.n * 10)
           [] value.k = "float" -> V(value.n)
           [] value.k = "bool"  -> V(value.n * 10)
           [] value.k = "inf"   -> V(value.n)
           [] value.k = "str"   -> ParseFloat(value.s)
           [] OTHER             -> NULL

\* utils/common.py safe_int
safe_int(value) ==
    IF IsBlankish(value) THEN NULL
    ELSE CASE value.k = "int"   -> V(value.n)
           [] value.k = "float" -> V(Trunc(value.n))
           [] value.k = "bool"  -> V(value.n)
           [] value.k = "inf"   -> OverflowError
           [] value.k = "str"   -> ParseInt(value.s)
           [] OTHER             -> NULL

\* str(value) for the kinds to_bool can meet
PyStr(value) ==
    CASE value.k = "str" -> value.s
      [] value.k = "int" -> IF value.n = 0 THEN <<"0">>
                            ELSE IF value.n = 1 THEN <<"1">> ELSE <<"#">>
      [] OTHER           -> <<"#">>

\* utils/common.py to_bool
to_bool(value) ==
    IF value.k = "none" THEN NULL
    ELSE IF value.k = "bool" THEN V(value.n)
    ELSE LET v == Lower(Strip(PyStr(value))) IN
         IF v \in {<<"t","r","u","e">>, <<"1">>, <<"y","e","s">>} THEN V(1)
         ELSE IF v \in {<<"f","a","l","s","e">>, <<"0">>, <<"n","o">>} THEN V(0)
         ELSE NULL

----------------------------------------------------------------------------
(* Configuration and schema *)

\* utils/config.py ENDPOINTS, in iteration order
ENDPOINTS == <<"climate_risk_by_country", "risk_compared_hist_box",
               "risk_current_vs_hist", "risk_global_avg_max",
               "most_similar_year">>

\* name of the feed at position f; position 0 is a direct call of
\* ingest_endpoint with a name that maps to no fact relation
FeedName(f) == IF f = 0 THEN "unmapped_feed" ELSE ENDPOINTS[f]

Tables == {ENDPOINTS[i] : i \in DOMAIN ENDPOINTS}

\* the VALUES tuple of each INSERT: column -> how the record's field of the
\* same name is converted ("id" columns come from entity resolution)
Kind(t) ==
    CASE t = "climate_risk_by_country" ->
           [redis_key |-> "raw", commodity_id |-> "id", country_id |-> "id",
            year |-> "int", hist_avg_wapr |-> "float",
            this_year_avg_wapr |-> "float", current_season |-> "bool",
            most_recent_season |-> "bool", upcoming_season |-> "bool",
            just_ended_season |-> "bool"]
      [] t = "risk_compared_hist_box" ->
           [redis_key |-> "raw", commodity_id |-> "id", country_id |-> "id",
            hist_risk_score |-> "float", this_year_risk_score |-> "float",
            avg_risk_score_diff |-> "float",
            upcoming_year_risk_score |-> "float", risk_level |-> "raw",
            current_season |-> "bool", just_ended_season |-> "bool",
            upcoming_season |-> "bool"]
      [] t = "risk_current_vs_hist" ->
           [redis_key |-> "raw", commodity_id |-> "id", country_id |-> "id",
            hist_wapr |-> "float", this_year_wapr |-> "float",
            std_upper |-> "float", std_lower |-> "float", date_on |-> "raw",
            season_status |-> "raw"]
      [] t = "risk_global_avg_max" ->
           [redis_key |-> "raw", commodity_id |-> "id", country_id |-> "id",
            hist_max_wapr |-> "float", hist_avg_wapr |-> "float",
            year |-> "int", current_season |-> "bool", past_season |-> "bool",
            upcoming_season |-> "bool"]
      [] t = "most_similar_year" ->
           [redis_key |-> "raw", commodity_id |-> "id", country_id |-> "id",
            most_similar_growing_season_year |-> "int",
            hist_avg_wapr_of_most_similar_year |-> "float",
            risk_category |-> "raw", star_rating |-> "int",
            total_production |-> "float", total_area_harvested |-> "float",
            current_season |-> "bool", upcoming_season |-> "bool",
            just_ended_season |-> "bool", this_growing_season_year |-> "int",
            total_yield |-> "float", total_yield_unit |-> "raw",
            yield_rating |-> "raw", total_production_unit |-> "raw",
            total_area_harvested_unit |-> "raw"]

Columns(t) == DOMAIN Kind(t)

\* the conflict target of each upsert: ON CONFLICT(...)
KeyCols(t) ==
    CASE t = "climate_risk_by_country" -> {"commodity_id", "country_id", "year"}
      [] t = "risk_compared_hist_box"  -> {"commodity_id", "country_id"}
      [] t = "risk_current_vs_hist"    -> {"commodity_id", "country_id", "date_on"}
      [] t = "risk_global_avg_max"     -> {"commodity_id", "country_id", "year"}
      [] t = "most_similar_year"       ->
           {"commodity_id", "country_id", "this_growing_season_year"}

\* the columns assigned by DO UPDATE SET col = excluded.col
SetCols(t) ==
    CASE t = "climate_risk_by_country" ->
           {"redis_key", "hist_avg_wapr", "this_year_avg_wapr", "current_season",
            "most_recent_season", "upcoming_season", "just_ended_season"}
      [] t = "risk_compared_hist_box" ->
           {"redis_key", "hist_risk_score", "this_year_risk_score",
            "avg_risk_score_diff", "upcoming_year_risk_score", "risk_level",
            "current_season", "just_ended_season", "upcoming_season"}
      [] t = "risk_current_vs_hist" ->
           {"redis_key", "hist_wapr", "this_year_wapr", "std_upper", "std_lower",
            "season_status"}
      [] t = "risk_global_avg_max" ->
           {"redis_key", "hist_max_wapr", "hist_avg_wapr", "current_season",
            "past_season", "upcoming_season"}
      [] t = "most_similar_year" ->
           {"redis_key", "most_similar_growing_season_year",
            "hist_avg_wapr_of_most_similar_year", "risk_category", "star_rating",
            "total_production", "total_area_harvested", "current_season",
            "upcoming_season", "just_ended_season", "total_yield",
            "total_yield_unit", "yield_rating", "total_production_unit",
            "total_area_harvested_unit"}

\* Schema (database/schema.sql): columns declared NOT NULL in a fact table.
\* Numeric fields are "a valid number or absent" and a record with an
\* unparseable field is still ingested, so no fact column rejects NULL.
NotNullCols(t) == {}

\* Schema: raw_ingest has no uniqueness constraint ("duplicates are expected
\* and tolerated"), so no audit row collides with an earlier one
RawDuplicate(old, new) == FALSE

\* Schema: commodities.name and countries.code are declared UNIQUE
UniqueNames == TRUE

\* Schema: what the store does with a countries row whose code is NULL
\* (kept when the column is nullable, rejected when it is NOT NULL).
NullCodeOutcomes == {"kept", "rejected"}

----------------------------------------------------------------------------
(* Statements *)

Coerce(kind, value) ==
    CASE kind = "float" -> safe_float(value)
      [] kind = "int"   -> safe_int(value)
      [] kind = "bool"  -> to_bool(value)
      [] OTHER          -> Bind(value)

\* the parameter tuple of the INSERT of table t for record r
MakeRow(t, r, commodity_id, country_id) ==
    [c \in Columns(t) |->
        CASE c = "commodity_id" -> V(commodity_id)
          [] c = "country_id"   -> V(country_id)
          [] OTHER              -> Coerce(Kind(t)[c], Get(r, c))]

\* SQLite unique index: two rows collide when all indexed columns are equal
\* and none of them is NULL (NULLs are distinct from each other)
Conflicts(t, a, b) ==
    \A c \in KeyCols(t) : a[c] # NULL /\ a[c] = b[c]

\* an upsert whose DO UPDATE assigns redis_key only
UpsertKeyOnly(t, rows, new) ==
    IF \E i \in DOMAIN rows : Conflicts(t, rows[i], new)
    THEN [i \in DOMAIN rows |->
            IF Conflicts(t, rows[i], new)
            THEN [rows[i] EXCEPT !.redis_key = new.redis_key]
            ELSE rows[i]]
    ELSE Append(rows, new)

\* INSERT ... ON CONFLICT(key) DO UPDATE SET ... on the rows of table t
Upsert(t, rows, new) ==
    IF \E i \in DOMAIN rows : Conflicts(t, rows[i], new)
    THEN [i \in DOMAIN rows |->
            IF Conflicts(t, rows[i], new)
            THEN [c \in Columns(t) |->
                    IF c \in SetCols(t) THEN new[c] ELSE rows[i][c]]
            ELSE rows[i]]
    ELSE Append(rows, new)

\* SELECT id FROM commodities WHERE name = ? (0: no row; NULL matches nothing)
FindCommodity(tbl, name) ==
    IF name.k = "str" /\ \E i \in DOMAIN tbl : tbl[i].name = V(name.s)
    THEN CHOOSE i \in DOMAIN tbl :
            /\ tbl[i].name = V(name.s)
            /\ \A j \in DOMAIN tbl : tbl[j].name = V(name.s) => i <= j
    ELSE 0

\* SELECT id FROM countries WHERE code = ?
FindCountry(tbl, code) ==
    IF code.k = "str" /\ \E i \in DOMAIN tbl : tbl[i].code = V(code.s)
    THEN CHOOSE i \in DOMAIN tbl :
            /\ tbl[i].code = V(code.s)
            /\ \A j \in DOMAIN tbl : tbl[j].code = V(code.s) => i <= j
    ELSE 0

\* name.lower().replace(" ", "_")
Slug(name) == ReplaceCh(Lower(name), " ", "_")

\* the row INSERT INTO commodities(name, slug) adds
CommodityRow(name) == [name |-> V(name.s), slug |-> V(Slug(name.s))]

\* the row INSERT INTO countries(name, code) VALUES(name or code, code) adds
CountryRow(code, name) ==
    [name |-> Bind(IF Truthy(name) THEN name ELSE code), code |-> Bind(code)]

----------------------------------------------------------------------------
(* Entity resolution, as one call on one connection *)

\* the AttributeError of name.lower() when name is None
CannotLower(name) == name.k # "str"

\* Schema: the INSERT into commodities raises on a name already stored
CommodityInsertFails(tbl, name) ==
    UniqueNames /\ FindCommodity(tbl, name) # 0

\* Schema: the INSERT into countries raises on a code already stored, and on
\* a NULL code when the column rejects it
CountryInsertFails(tbl, code, nullCode) ==
    \/ UniqueNames /\ FindCountry(tbl, code) # 0
    \/ code.k = "none" /\ nullCode = "rejected"

\* get_or_create_commodity(conn, name); fault: the INSERT raises
ResolveCommodity(tbl, name, fault) ==
    LET found == FindCommodity(tbl, name)
        added == Append(tbl, CommodityRow(name))
    IN  IF found # 0 THEN [tbl |-> tbl, id |-> found, raised |-> FALSE]
        ELSE IF CannotLower(name) \/ fault \/ CommodityInsertFails(tbl, name)
             THEN [tbl |-> tbl, id |-> 0, raised |-> TRUE]
             ELSE [tbl |-> added, id |-> FindCommodity(added, name),
                   raised |-> FALSE]

\* a resolver that answers a found key with the id of the newest row
ResolveCountryLastId(tbl, code, name, fault, nullCode) ==
    LET found == FindCountry(tbl, code)
        fails == fault \/ CountryInsertFails(tbl, code, nullCode)
        after == IF fails THEN tbl ELSE Append(tbl, CountryRow(code, name))
    IN  IF found # 0 THEN [tbl |-> tbl, id |-> Len(tbl)]
        ELSE [tbl |-> after, id |-> FindCountry(after, code)]

\* a resolver that renames the stored country to the name of the call
ResolveCountryRenaming(tbl, code, name, fault, nullCode) ==
    LET found == FindCountry(tbl, code)
        fails == fault \/ CountryInsertFails(tbl, code, nullCode)
        after == IF fails THEN tbl ELSE Append(tbl, CountryRow(code, name))
    IN  IF found # 0
        THEN [tbl |-> [tbl EXCEPT ![found] = CountryRow(code, name)],
              id |-> found]
        ELSE [tbl |-> after, id |-> FindCountry(after, code)]

\* get_or_create_country(conn, code, name); the INSERT is inside try/except,
\* so a failing INSERT adds nothing and the re-query decides the result: the
\* id, or 0 when there is no row
ResolveCountry(tbl, code, name, fault, nullCode) ==
    LET found == FindCountry(tbl, code)
        fails == fault \/ CountryInsertFails(tbl, code, nullCode)
        after == IF fails THEN tbl ELSE Append(tbl, CountryRow(code, name))
    IN  IF found # 0 THEN [tbl |-> tbl, id |-> found]
        ELSE [tbl |-> after, id |-> FindCountry(after, code)]

GLB == <<"G","L","B">>
Global == <<"G","l","o","b","a","l">>

\* x or default
OrElse(x, default) == IF Truthy(x) THEN x ELSE default

\* the (code, name) each branch of ingest_endpoint passes to
\* get_or_create_country for record r
CountryArgs(t, r) ==
    CASE t \in {"climate_risk_by_country", "risk_compared_hist_box"} ->
           [code |-> Get(r, "country_code"), name |-> Get(r, "country_name")]
      [] t = "risk_current_vs_hist" ->
           [code |-> OrElse(JStr(Prefix(Upper(OrElse(Get(r, "country_name"),
                                                     JStr(<<>>)).s), 3)),
                            JStr(GLB)),
            name |-> Get(r, "country_name")]
      [] t \in {"risk_global_avg_max", "most_similar_year"} ->
           [code |-> OrElse(Get(r, "country_code"), JStr(GLB)),
            name |-> OrElse(Get(r, "country_name"), JStr(Global))]

----------------------------------------------------------------------------
(* Feed records the model draws from *)

Rice    == <<"R","i","c","e">>
Wheat   == <<"W","h","e","a","t">>
CodeIN  == <<"I","N">>
CodeEU  == <<"E","U">>
CodeBR  == <<"B","R">>
Brazil  == <<"B","r","a","z","i","l">>
India   == <<"I","n","d","i","a">>
Europe  == <<"E","u","r","o","p","e">>
Bharat  == <<"B","h","a","r","a","t">>
Indonesia == <<"I","n","d","o","n","e","s","i","a">>
PalmOil == <<"P","a","l","m"," ","O","i","l">>
Key1    == <<"k","1">>
Key2    == <<"k","2">>
Day1    == <<"2","0","2","5","-","0","1","-","0","1">>
StrTrue == <<"t","r","u","e">>
StrYes  == <<"Y","e","s">>

\* id -> the JSON object of the record
Record(id) ==
    CASE id = "a1" ->
           [redis_key |-> JStr(Key1), commodity |-> JStr(Rice),
            country_code |-> JStr(CodeIN), country_name |-> JStr(India),
            year |-> JInt(2025), hist_avg_wapr |-> JFloat(200),
            this_year_avg_wapr |-> JFloat(300), current_season |-> JBool(TRUE),
            most_recent_season |-> JStr(StrTrue), upcoming_season |-> JInt(0),
            just_ended_season |-> JBool(FALSE)]
      [] id = "a2" ->
           [redis_key |-> JStr(Key2), commodity |-> JStr(Rice),
            country_code |-> JStr(CodeIN), country_name |-> JStr(India),
            year |-> JStr(<<"2","0","2","5">>),
            this_year_avg_wapr |-> JStr(<<"3","8",".","0">>),
            current_season |-> JStr(<<"m","a","y","b","e">>),
            upcoming_season |-> JStr(StrYes)]
      [] id = "a3" ->
           [redis_key |-> JStr(Key1), commodity |-> JStr(Rice),
            country_code |-> JStr(CodeIN), country_name |-> JStr(India),
            hist_avg_wapr |-> JInt(10), this_year_avg_wapr |-> JInt(30)]
      [] id = "a4" ->
           [redis_key |-> JStr(Key1), commodity |-> JStr(Rice),
            country_name |-> JStr(India), year |-> JInt(2025),
            hist_avg_wapr |-> JInt(0), this_year_avg_wapr |-> JInt(30)]
      [] id = "b1" ->
           [redis_key |-> JStr(Key1), commodity |-> JStr(Rice),
            country_code |-> JStr(CodeIN), country_name |-> JStr(India),
            hist_risk_score |-> JFloat(100), this_year_risk_score |-> JFloat(150),
            avg_risk_score_diff |-> JFloat(50),
            upcoming_year_risk_score |-> JFloat(160),
            risk_level |-> JStr(<<"h","i","g","h">>),
            current_season |-> JBool(FALSE), just_ended_season |-> JBool(FALSE),
            upcoming_season |-> JBool(TRUE)]
      [] id = "b2" ->
           [redis_key |-> JStr(Key2), commodity |-> JStr(Rice),
            country_code |-> JStr(CodeIN), country_name |-> JStr(India),
            avg_risk_score_diff |-> JFloat(51),
            upcoming_season |-> JStr(StrTrue)]
      [] id = "b3" ->
           [redis_key |-> JStr(Key1), commodity |-> JStr(Rice),
            country_name |-> JStr(India), avg_risk_score_diff |-> JFloat(70)]
      [] id = "c1" ->
           [redis_key |-> JStr(Key1), commodity |-> JStr(Rice),
            country_name |-> JStr(India), hist_wapr |-> JFloat(100),
            this_year_wapr |-> JFloat(120), std_upper |-> JFloat(130),
            std_lower |-> JFloat(90), date_on |-> JStr(Day1),
            season_status |-> JStr(<<"o","n">>)]
      [] id = "c2" ->
           [redis_key |-> JStr(Key2), commodity |-> JStr(Rice),
            country_name |-> JStr(India), this_year_wapr |-> JInt(14),
            date_on |-> JStr(Day1)]
      [] id = "c3" ->
           [redis_key |-> JStr(Key1), commodity |-> JStr(Rice),
            country_name |-> JStr(India), this_year_wapr |-> JInt(15)]
      [] id = "c4" ->
           [redis_key |-> JStr(Key1), commodity |-> JStr(Rice),
            this_year_wapr |-> JInt(16), date_on |-> JStr(Day1)]
      [] id = "g1" ->
           [redis_key |-> JStr(Key1), commodity |-> JStr(Rice),
            hist_max_wapr |-> JFloat(400), hist_avg_wapr |-> JFloat(250),
            year |-> JInt(2025), current_season |-> JBool(TRUE),
            past_season |-> JBool(FALSE), upcoming_season |-> JBool(FALSE)]
      [] id = "g2" ->
           [redis_key |-> JStr(Key2), commodity |-> JStr(Rice),
            country_code |-> JStr(<<>>), hist_max_wapr |-> JInt(45),
            year |-> JInt(2025)]
      [] id = "g3" ->
           [redis_key |-> JStr(Key1), commodity |-> JStr(Rice),
            hist_max_wapr |-> JInt(50), year |-> JStr(<<"n","/","a">>)]
      [] id = "m1" ->
           [redis_key |-> JStr(Key1), commodity |-> JStr(Rice),
            most_similar_growing_season_year |-> JInt(2019),
            hist_avg_wapr_of_most_similar_year |-> JFloat(220),
            risk_category |-> JStr(<<"l","o","w">>), star_rating |-> JInt(4),
            total_production |-> JFloat(1000),
            total_area_harvested |-> JFloat(500),
            current_season |-> JBool(TRUE), upcoming_season |-> JBool(FALSE),
            just_ended_season |-> JBool(FALSE),
            this_growing_season_year |-> JInt(2025),
            total_yield |-> JFloat(20), total_yield_unit |-> JStr(<<"t">>),
            yield_rating |-> JStr(<<"g","o","o","d">>),
            total_production_unit |-> JStr(<<"t">>),
            total_area_harvested_unit |-> JStr(<<"h","a">>)]
      [] id = "m2" ->
           [redis_key |-> JStr(Key2), commodity |-> JStr(Rice),
            this_growing_season_year |-> JFloat(20250),
            total_yield |-> JInt(3)]
      [] id = "m3" ->
           [redis_key |-> JStr(Key1), commodity |-> JStr(Rice),
            country_code |-> JStr(CodeIN), country_name |-> JStr(India),
            total_yield |-> JInt(4)]
      [] id = "u1" ->
           [redis_key |-> JStr(Key1), commodity |-> JStr(Rice)]
      [] id = "k1" ->
           [redis_key |-> JStr(Key2), commodity |-> JStr(PalmOil),
            country_code |-> JStr(CodeIN), country_name |-> JStr(Bharat),
            year |-> JInt(2025), this_year_avg_wapr |-> JFloat(310)]
      [] id = "k2" ->
           [redis_key |-> JStr(Key2), commodity |-> JStr(PalmOil),
            country_code |-> JStr(CodeIN),
            year |-> JInt(2024), this_year_avg_wapr |-> JFloat(290)]
      [] id = "n1" ->
           [redis_key |-> JStr(Key1),
            country_code |-> JStr(CodeIN), country_name |-> JStr(India),
            year |-> JInt(2025), hist_avg_wapr |-> JFloat(200),
            this_year_avg_wapr |-> JFloat(300)]
      [] id = "n3" ->
           [redis_key |-> JStr(Key2), country_name |-> JStr(India),
            this_year_wapr |-> JFloat(120), date_on |-> JStr(Day1)]
      [] id = "c5" ->
           [redis_key |-> JStr(Key2), commodity |-> JStr(Rice),
            country_name |-> JStr(Indonesia), hist_wapr |-> JFloat(80),
            this_year_wapr |-> JFloat(99), date_on |-> JStr(Day1)]
      [] id = "c6" ->
           [redis_key |-> JStr(Key2), commodity |-> JStr(Rice),
            country_name |-> JStr(Brazil), hist_wapr |-> JFloat(70),
            this_year_wapr |-> JFloat(75), date_on |-> JStr(Day1)]
      [] id = "x1" ->
           [redis_key |-> JStr(Key1), commodity |-> JStr(Rice),
            country_code |-> JStr(CodeIN), country_name |-> JStr(India),
            year |-> JInf, hist_avg_wapr |-> JFloat(200),
            this_year_avg_wapr |-> JFloat(300)]
      [] id = "x2" ->
           [redis_key |-> JStr(Key2), commodity |-> JStr(Rice),
            country_code |-> JStr(CodeIN), country_name |-> JStr(India),
            year |-> JStr(<<"2","0","2","4">>),
            hist_avg_wapr |-> JStr(<<"a","b","c">>),
            this_year_avg_wapr |-> JList,
            current_season |-> JInt(7),
            most_recent_season |-> JStr(<<>>),
            upcoming_season |-> JStr(<<"n","u","l","l">>),
            just_ended_season |-> JStr(<<" ","N","O"," ">>)]
      [] id = "x3" ->
           [redis_key |-> JStr(Key1), commodity |-> JStr(Rice),
            country_code |-> JStr(CodeIN), country_name |-> JStr(India),
            year |-> JFloat(20239), hist_avg_wapr |-> JInf,
            this_year_avg_wapr |-> JStr(<<"n","u","l","l">>),
            current_season |-> JInf]
      [] id = "s1" ->
           [redis_key |-> JStr(Key1), commodity |-> JStr(Rice),
            country_code |-> JStr(CodeIN), country_name |-> JStr(India),
            year |-> JInt(2024), hist_avg_wapr |-> JFloat(300),
            this_year_avg_wapr |-> JFloat(300)]
      [] id = "s2" ->
           [redis_key |-> JStr(Key1), commodity |-> JStr(Rice),
            country_code |-> JStr(CodeIN), country_name |-> JStr(India),
            year |-> JInt(2024), hist_avg_wapr |-> JFloat(100),
            this_year_avg_wapr |-> JFloat(400)]
      [] id = "s3" ->
           [redis_key |-> JStr(Key1), commodity |-> JStr(Rice),
            country_code |-> JStr(CodeIN), country_name |-> JStr(India),
            year |-> JInt(2023), hist_avg_wapr |-> JFloat(50),
            this_year_avg_wapr |-> JFloat(500)]
      [] id = "p1" ->
           [redis_key |-> JStr(Key1), commodity |-> JStr(Rice),
            country_code |-> JStr(CodeEU), country_name |-> JStr(Europe),
            avg_risk_score_diff |-> JFloat(51),
            upcoming_year_risk_score |-> JFloat(170),
            upcoming_season |-> JBool(TRUE)]
      [] id = "p2" ->
           [redis_key |-> JStr(Key1), commodity |-> JStr(Rice),
            country_code |-> JStr(CodeEU), country_name |-> JStr(Europe),
            avg_risk_score_diff |-> JFloat(70),
            upcoming_season |-> JBool(FALSE)]
      [] id = "p3" ->
           [redis_key |-> JStr(Key1), commodity |-> JStr(Rice),
            country_code |-> JStr(CodeBR), country_name |-> JStr(Brazil),
            upcoming_season |-> JBool(TRUE)]
      [] id = "p4" ->
           [redis_key |-> JStr(Key1), commodity |-> JStr(Wheat),
            country_code |-> JStr(CodeEU), country_name |-> JStr(Europe),
            avg_risk_score_diff |-> JFloat(90),
            upcoming_season |-> JBool(TRUE)]
      [] id = "p5" ->
           [redis_key |-> JStr(Key1), commodity |-> JStr(Rice),
            country_code |-> JStr(CodeBR), country_name |-> JStr(Brazil),
            avg_risk_score_diff |-> JFloat(80),
            upcoming_season |-> JInt(1)]
      [] id = "t1" ->
           [redis_key |-> JStr(Key1), commodity |-> JStr(Rice),
            hist_max_wapr |-> JFloat(350), hist_avg_wapr |-> JFloat(210),
            year |-> JInt(2023)]
      [] id = "t2" ->
           [redis_key |-> JStr(Key1), commodity |-> JStr(Rice),
            country_code |-> JStr(CodeIN), country_name |-> JStr(India),
            hist_max_wapr |-> JFloat(420), year |-> JInt(2024)]
      [] id = "t3" ->
           [redis_key |-> JStr(Key1), commodity |-> JStr(Wheat),
            hist_max_wapr |-> JFloat(300), year |-> JInt(2024)]
      [] id = "y1" ->
           [redis_key |-> JStr(Key1), commodity |-> JStr(Rice),
            country_code |-> JStr(CodeIN), country_name |-> JStr(India),
            this_growing_season_year |-> JInt(2024),
            most_similar_growing_season_year |-> JInt(2012),
            total_yield |-> JFloat(31),
            yield_rating |-> JStr(<<"l","o","w">>)]
      [] id = "y2" ->
           [redis_key |-> JStr(Key1), commodity |-> JStr(Rice),
            this_growing_season_year |-> JInt(2024),
            most_similar_growing_season_year |-> JInt(2010),
            total_yield |-> JFloat(18)]
      [] id = "y3" ->
           [redis_key |-> JStr(Key1), commodity |-> JStr(Rice),
            country_code |-> JStr(CodeIN), country_name |-> JStr(India),
            this_growing_season_year |-> JInt(2025),
            most_similar_growing_season_year |-> JInt(2015),
            total_yield |-> JFloat(33)]
      [] id = "h1" ->
           [redis_key |-> JStr(Key1), commodity |-> JStr(Rice),
            country_code |-> JStr(CodeIN), country_name |-> JStr(India),
            year |-> JInt(2024), hist_avg_wapr |-> JInt(0),
            this_year_avg_wapr |-> JFloat(250)]
      [] id = "h2" ->
           [redis_key |-> JStr(Key1), commodity |-> JStr(Rice),
            country_code |-> JStr(CodeIN), country_name |-> JStr(India),
            year |-> JInt(2024), hist_avg_wapr |-> JFloat(200)]
      [] id = "e1" ->
           [redis_key |-> JStr(Key1), commodity |-> JStr(Rice),
            country_code |-> JStr(CodeEU), country_name |-> JStr(Europe),
            year |-> JInt(2025), hist_avg_wapr |-> JFloat(200),
            this_year_avg_wapr |-> JFloat(300)]
      [] id = "e2" ->
           [redis_key |-> JStr(Key1), commodity |-> JStr(Rice),
            country_code |-> JStr(CodeEU), country_name |-> JStr(Europe),
            year |-> JInt(2024), this_year_avg_wapr |-> JFloat(200)]
      [] id = "e3" ->
           [redis_key |-> JStr(Key1), commodity |-> JStr(Rice),
            country_code |-> JStr(CodeEU), country_name |-> JStr(Europe),
            year |-> JInt(2024), this_year_avg_wapr |-> JInt(0)]
      [] id = "e4" ->
           [redis_key |-> JStr(Key1), commodity |-> JStr(Wheat),
            country_code |-> JStr(CodeEU), country_name |-> JStr(Europe),
            year |-> JInt(2024), this_year_avg_wapr |-> JFloat(100)]
      [] id = "e5" ->
           [redis_key |-> JStr(Key1), commodity |-> JStr(Rice),
            country_code |-> JStr(CodeEU), country_name |-> JStr(Europe),
            year |-> JInt(2024), hist_avg_wapr |-> JFloat(150)]

\* bounds of the scenarios
MaxRecords == 2      \* records delivered in all passes together
MaxRuns    == 2      \* ingestion runs
MaxFaults  == 1      \* injected failures
MaxCalls   == 4      \* direct calls of the entity resolvers
MaxStored  == 3      \* records delivered before the queries
MaxK       == 2      \* the k of a top-k request

\* sequences over S of length at most n
SeqsUpTo(S, n) == UNION {[1..k -> S] : k \in 0..n}

----------------------------------------------------------------------------
(* The ingestion run: main() and ingest_endpoint() *)

NoCall == [rec |-> "", t |-> "", code |-> None, commodity |-> None,
           commodity_id |-> 0, country_id |-> 0, outcome |-> "none"]

EmptyFacts == [t \in Tables |-> <<>>]

IngestInit(firstFeeds, nfaults, nrecords) ==
    /\ commodities = <<>>
    /\ countries = <<>>
    /\ facts = EmptyFacts
    /\ raw_ingest = <<>>
    /\ pc = "fetch"
    /\ feed \in firstFeeds
    /\ data = <<>>
    /\ idx = 1
    /\ now = 0
    /\ runs = 1
    /\ budget = nrecords
    /\ faults = nfaults
    /\ fetched = {}
    /\ rawStart = 0
    /\ rawFailed = 0
    /\ lastCall = NoCall
    /\ res = <<>>
    /\ qres = <<>>

\* a loop of main that takes the remaining endpoints in any order
AfterFeedAnyOrder ==
    IF feed = 0 \/ (1..Len(ENDPOINTS)) \subseteq (fetched \cup {feed})
    THEN /\ pc' = "done"
         /\ feed' = feed
    ELSE /\ pc' = "fetch"
         /\ feed' \in (1..Len(ENDPOINTS)) \ (fetched \cup {feed})

\* where control goes when the pass of the current feed has ended normally:
\* main's loop moves to the next endpoint; after the last one (or after a
\* direct call of ingest_endpoint) the run is over
AfterFeed ==
    IF feed = 0 \/ feed = Len(ENDPOINTS)
    THEN /\ pc' = "done"
         /\ feed' = feed
    ELSE /\ pc' = "fetch"
         /\ feed' = feed + 1

\* resp = await client.get(url); resp.raise_for_status(): the transport fails
\* and the exception leaves ingest_endpoint and, uncaught, main
FetchFail ==
    /\ pc = "fetch"
    /\ faults > 0
    /\ faults' = faults - 1
    /\ fetched' = fetched \cup {feed}
    /\ pc' = "fetch_failed"
    /\ UNCHANGED <<commodities, countries, facts, raw_ingest, feed, data, idx,
                   now, runs, budget, rawStart, rawFailed, lastCall, res, qres>>

\* data = resp.json(); now = datetime.now(); the connection is opened
FetchOk(U) ==
    /\ pc = "fetch"
    /\ \E d \in SeqsUpTo(U[feed], budget) :
          /\ data' = d
          /\ budget' = budget - Len(d)
          /\ IF d = <<>> THEN AfterFeed ELSE pc' = "raw" /\ feed' = feed
    /\ idx' = 1
    /\ now' = now + 1
    /\ rawStart' = Len(raw_ingest)
    /\ rawFailed' = 0
    /\ fetched' = fetched \cup {feed}
    /\ UNCHANGED <<commodities, countries, facts, raw_ingest, runs, faults,
                   lastCall, res, qres>>

\* the row the raw-log INSERT adds for record id (payload: json.dumps(item),
\* one-to-one with the record)
RawRow(id) ==
    [endpoint_name |-> FeedName(feed),
     redis_key |-> Bind(Get(Record(id), "redis_key")),
     payload |-> id,
     ingested_at |-> now]

\* a raw-log loop that is left for the upserts after its first insert
AfterRawFirstOnly ==
    IF feed = 0 THEN AfterFeed /\ idx' = 1
    ELSE /\ pc' = "upsert"
         /\ idx' = 1
         /\ feed' = feed

\* after the raw-log loop: the branch of the feed name, if any
AfterRaw ==
    IF idx < Len(data) THEN /\ pc' = "raw"
                            /\ idx' = idx + 1
                            /\ feed' = feed
    ELSE IF feed = 0 THEN AfterFeed /\ idx' = 1
    ELSE /\ pc' = "upsert"
         /\ idx' = 1
         /\ feed' = feed

\* an audit insert without the except clause
RawLogNoExcept(rows, row, fail) ==
    [rows |-> IF fail THEN rows ELSE Append(rows, row), raised |-> fail]

\* an audit insert that skips a record already logged for the endpoint
RawLogDedup(rows, row, fail) ==
    [rows |-> IF fail \/ (\E i \in DOMAIN rows :
                            /\ rows[i].endpoint_name = row.endpoint_name
                            /\ rows[i].redis_key = row.redis_key)
              THEN rows ELSE Append(rows, row),
     raised |-> FALSE]

\* try: INSERT INTO raw_ingest ... except Exception: pass
\* fail: the INSERT raises; the except clause swallows it
RawLog(rows, row, fail) ==
    [rows |-> IF fail \/ (\E i \in DOMAIN rows : RawDuplicate(rows[i], row))
              THEN rows ELSE Append(rows, row),
     raised |-> FALSE]

\* one iteration of the raw-log loop
RawInsert ==
    /\ pc = "raw"
    /\ \E fail \in {FALSE} \cup {x \in {TRUE} : faults > 0} :
          LET out == RawLog(raw_ingest, RawRow(data[idx]), fail) IN
          /\ raw_ingest' = out.rows
          /\ rawFailed' = IF fail THEN rawFailed + 1 ELSE rawFailed
          /\ faults' = IF fail THEN faults - 1 ELSE faults
          /\ IF out.raised
             THEN pc' = "aborted" /\ UNCHANGED <<idx, feed>>
             ELSE AfterRaw
    /\ UNCHANGED <<commodities, countries, facts, data, now, runs, budget,
                   fetched, rawStart, lastCall, res, qres>>

\* the statements a fault can hit while one record is upserted
FaultPoints == {"none", "commodity", "country", "upsert"}

\* one iteration of the loop of the feed's branch: resolve the commodity and
\* the country, then upsert; each statement is committed on its own, and an
\* exception (of a resolver, of a conversion in the parameter tuple, of the
\* INSERT) leaves ingest_endpoint and main
UpsertRecord ==
    /\ pc = "upsert"
    /\ \E fp \in {f \in FaultPoints : f = "none" \/ faults > 0},
          nullCode \in NullCodeOutcomes :
        LET t    == FeedName(feed)
            r    == Record(data[idx])
            com  == ResolveCommodity(commodities, Get(r, "commodity"),
                                     fp = "commodity")
            args == CountryArgs(t, r)
            ctry == ResolveCountry(countries, args.code, args.name,
                                   fp = "country", nullCode)
            row  == MakeRow(t, r, com.id, ctry.id)
            bad  == \E c \in NotNullCols(t) : row[c] = NULL
            exc  == \E c \in Columns(t) : row[c] = OverflowError
            call == [rec |-> data[idx], t |-> t, code |-> args.code,
                     commodity |-> Get(r, "commodity"),
                     commodity_id |-> com.id, country_id |-> ctry.id,
                     outcome |-> "ok"]
        IN  /\ faults' = IF fp = "none" THEN faults ELSE faults - 1
            /\ commodities' = com.tbl
            /\ IF com.raised
               THEN /\ pc' = "aborted"
                    /\ lastCall' = [call EXCEPT !.outcome = "commodity_raised",
                                                !.country_id = 0,
                                                !.code = None]
                    /\ UNCHANGED <<countries, facts, idx, feed>>
               ELSE /\ countries' = ctry.tbl
                    /\ IF fp = "upsert" \/ bad \/ exc
                       THEN /\ pc' = "aborted"
                            /\ lastCall' = [call EXCEPT !.outcome =
                                              IF exc THEN "coerce_raised"
                                              ELSE "upsert_raised"]
                            /\ UNCHANGED <<facts, idx, feed>>
                       ELSE /\ facts' = [facts EXCEPT ![t] = Upsert(t, @, row)]
                            /\ lastCall' = call
                            /\ IF idx < Len(data)
                               THEN /\ idx' = idx + 1
                                    /\ pc' = "upsert"
                                    /\ feed' = feed
                               ELSE AfterFeed /\ idx' = 1
    /\ UNCHANGED <<raw_ingest, data, now, runs, budget, fetched, rawStart,
                   rawFailed, res, qres>>

\* the process is started again: a new run of main (feed 1), or a direct call
\* of ingest_endpoint
Restart(firstFeeds) ==
    /\ pc \in {"done", "aborted", "fetch_failed"}
    /\ runs < MaxRuns
    /\ runs' = runs + 1
    /\ pc' = "fetch"
    /\ feed' \in firstFeeds
    /\ fetched' = {}
    /\ UNCHANGED <<commodities, countries, facts, raw_ingest, data, idx, now,
                   budget, faults, rawStart, rawFailed, lastCall, res, qres>>

\* Ingestion with failures of the environment: runs of main and direct calls
\* of ingest_endpoint for a feed without a fact relation
FaultRecords ==
    [f \in 0..Len(ENDPOINTS) |->
        CASE f = 0 -> {"u1"}
          [] f = 1 -> {"a1", "a2"}
          [] f = 2 -> {"b1"}
          [] f = 3 -> {}
          [] f = 4 -> {}
          [] f = 5 -> {"m1"}]

Init == IngestInit({0, 1}, MaxFaults, MaxRecords)

Next ==
    \/ FetchOk(FaultRecords)
    \/ FetchFail
    \/ RawInsert
    \/ UpsertRecord
    \/ Restart({0, 1})

Spec == Init /\ [][Next]_vars

\* Ingestion of all five feeds without failures: per feed two records with the
\* same natural key and different values, one whose year/date is absent, and
\* records without country_code
IngestRecords ==
    [f \in 0..Len(ENDPOINTS) |->
        CASE f = 1 -> {"a1", "a2", "a3", "a4"}
          [] f = 2 -> {"b1", "b2", "b3"}
          [] f = 3 -> {"c1", "c2", "c3", "c4"}
          [] f = 4 -> {"g1", "g2", "g3"}
          [] f = 5 -> {"m1", "m2", "m3"}
          [] OTHER -> {}]

InitIngest == IngestInit({1}, 0, MaxRecords)

NextIngest ==
    \/ FetchOk(IngestRecords)
    \/ RawInsert
    \/ UpsertRecord
    \/ Restart({1})

SpecIngest == InitIngest /\ [][NextIngest]_vars

----------------------------------------------------------------------------
(* Natural keys and merge semantics *)

\* two rows of table t carry the same natural key (an absent year or date
\* is a key value like any other)
SameKey(t, a, b) == \A c \in KeyCols(t) : a[c] = b[c]

\* a step that upserts the record at data[idx] without raising
UpsertStep == pc = "upsert" /\ pc' # "aborted"

\* C1: after any sequence of ingestion passes no fact relation holds two rows
\* with the same natural key (commodity, country and, where the relation has
\* one, year or date), records whose year or date is absent included.
C1_NaturalKeyUnique ==
    \A t \in Tables : \A i, j \in DOMAIN facts[t] :
        SameKey(t, facts[t][i], facts[t][j]) => i = j

\* C2: ingesting a record whose natural key is already stored adds no row and
\* overwrites every column of the stored row with the incoming record's
\* coerced values (absent ones included); all other rows stay as they are.
C2_UpsertOverwrites ==
    [][UpsertStep =>
        LET t   == FeedName(feed)
            new == MakeRow(t, Record(data[idx]), lastCall'.commodity_id,
                           lastCall'.country_id)
            hit == {i \in DOMAIN facts[t] : SameKey(t, facts[t][i], new)}
        IN  hit # {} =>
              /\ Len(facts'[t]) = Len(facts[t])
              /\ \A i \in DOMAIN facts[t] :
                    facts'[t][i] = IF i \in hit THEN new ELSE facts[t][i]
              /\ \A u \in Tables \ {t} : facts'[u] = facts[u]
      ]_vars

\* C5: for a record without country_code the code handed to country resolution
\* is "GLB" (for risk_current_vs_hist: the uppercased first three letters of
\* country_name, "GLB" without a name), never empty or absent, and the fact
\* row's country is the Country row of that code.
C5_MissingCodeDefaults ==
    (lastCall.outcome = "ok" /\ "country_code" \notin DOMAIN Record(lastCall.rec))
    => LET nm == Get(Record(lastCall.rec), "country_name")
           expected == IF lastCall.t = "risk_current_vs_hist" /\ Truthy(nm)
                       THEN Prefix(Upper(nm.s), 3) ELSE GLB
       IN  /\ lastCall.code = JStr(expected)
           /\ lastCall.country_id \in DOMAIN countries
           /\ countries[lastCall.country_id].code = V(expected)

----------------------------------------------------------------------------
(* Entity resolution called directly, one call after another *)

NameInputs == {JStr(Rice), JStr(Wheat), JStr(<<>>), None}
CodeInputs == {JStr(CodeIN), JStr(GLB), None}
CountryNameInputs == {JStr(India), None}

InitResolve ==
    /\ commodities = <<>>
    /\ countries = <<>>
    /\ facts = EmptyFacts
    /\ raw_ingest = <<>>
    /\ pc = "calls"
    /\ feed = 0
    /\ data = <<>>
    /\ idx = 1
    /\ now = 0
    /\ runs = 0
    /\ budget = MaxCalls
    /\ faults = 0
    /\ fetched = {}
    /\ rawStart = 0
    /\ rawFailed = 0
    /\ lastCall = [t |-> "", key |-> None, id |-> 0, existed |-> FALSE,
                   raised |-> FALSE]
    /\ res = <<>>
    /\ qres = <<>>

\* await get_or_create_commodity(conn, name)
CallCommodity ==
    /\ pc = "calls"
    /\ budget > 0
    /\ \E name \in NameInputs :
          LET out == ResolveCommodity(commodities, name, FALSE) IN
          /\ commodities' = out.tbl
          /\ lastCall' = [t |-> "commodities", key |-> name, id |-> out.id,
                          existed |-> FindCommodity(commodities, name) # 0,
                          raised |-> out.raised]
    /\ budget' = budget - 1
    /\ UNCHANGED <<countries, facts, raw_ingest, pc, feed, data, idx, now, runs,
                   faults, fetched, rawStart, rawFailed, res, qres>>

\* await get_or_create_country(conn, code, name)
CallCountry ==
    /\ pc = "calls"
    /\ budget > 0
    /\ \E code \in CodeInputs, name \in CountryNameInputs,
          nullCode \in NullCodeOutcomes :
          LET out == ResolveCountry(countries, code, name, FALSE, nullCode) IN
          /\ countries' = out.tbl
          /\ lastCall' = [t |-> "countries", key |-> code, id |-> out.id,
                          existed |-> FindCountry(countries, code) # 0,
                          raised |-> FALSE]
    /\ budget' = budget - 1
    /\ UNCHANGED <<commodities, facts, raw_ingest, pc, feed, data, idx, now,
                   runs, faults, fetched, rawStart, rawFailed, res, qres>>

NextResolve == CallCommodity \/ CallCountry

SpecResolve == InitResolve /\ [][NextResolve]_vars

\* at most one Commodity row per name and one Country row per code
UniqueEntities ==
    /\ \A i, j \in DOMAIN commodities :
          commodities[i].name = commodities[j].name => i = j
    /\ \A i, j \in DOMAIN countries :
          (countries[i].code # NULL /\ countries[i].code = countries[j].code)
          => i = j

\* the id the store holds for a key of table t (0: none)
IdOf(t, key, coms, ctrs) ==
    IF t = "commodities" THEN FindCommodity(coms, key) ELSE FindCountry(ctrs, key)

\* C3: after any sequence of resolver calls there is at most one Commodity row
\* per name and one Country row per code; a call for a key that is stored
\* inserts nothing and returns the id of the stored row; a call that returns
\* answers with the id the store holds for the key, and stored keys keep
\* their ids, so repeated resolution of a key returns the same id.
C3_ResolveExisting ==
    [][/\ UniqueEntities'
       /\ \A k \in NameInputs :
             FindCommodity(commodities, k) # 0
             => FindCommodity(commodities', k) = FindCommodity(commodities, k)
       /\ \A k \in CodeInputs :
             FindCountry(countries, k) # 0
             => FindCountry(countries', k) = FindCountry(countries, k)
       /\ LET c == lastCall'
              before == IdOf(c.t, c.key, commodities, countries)
          IN  /\ before # 0 => /\ c.id = before
                               /\ ~c.raised
                               /\ commodities' = commodities
                               /\ countries' = countries
              /\ ~c.raised => c.id = IdOf(c.t, c.key, commodities', countries')
      ]_vars

\* a key that was stored has been resolved again, among several rows
C3_Witness ==
    /\ lastCall.existed
    /\ lastCall.id # 0
    /\ Len(countries) >= 2 \/ Len(commodities) >= 2

----------------------------------------------------------------------------
(* Entity resolution by two concurrent callers, statement by statement:     *)
(* each await of get_or_create_* is a point where the other caller may run  *)

Resolvers == {1, 2}

RaceKinds == {"commodities", "countries"}
RaceKeys(kind) ==
    IF kind = "commodities" THEN {JStr(Rice), JStr(Wheat)}
    ELSE {JStr(CodeIN), JStr(GLB)}

Idle == [kind |-> "", key |-> None, at |-> "idle", id |-> 0]

InitRace ==
    /\ commodities = <<>>
    /\ countries = <<>>
    /\ facts = EmptyFacts
    /\ raw_ingest = <<>>
    /\ pc = "race"
    /\ feed = 0
    /\ data = <<>>
    /\ idx = 1
    /\ now = 0
    /\ runs = 0
    /\ budget = MaxCalls
    /\ faults = 0
    /\ fetched = {}
    /\ rawStart = 0
    /\ rawFailed = 0
    /\ lastCall = NoCall
    /\ res = [p \in Resolvers |-> Idle]
    /\ qres = <<>>

RaceFrame ==
    UNCHANGED <<facts, raw_ingest, pc, feed, data, idx, now, runs, faults,
                fetched, rawStart, rawFailed, lastCall, qres>>

\* a caller enters get_or_create_commodity / get_or_create_country
RCall(p) ==
    /\ pc = "race"
    /\ res[p].at \in {"idle", "returned", "raised"}
    /\ budget > 0
    /\ budget' = budget - 1
    /\ \E kind \in RaceKinds : \E key \in RaceKeys(kind) :
          res' = [res EXCEPT ![p] = [kind |-> kind, key |-> key,
                                     at |-> "lookup", id |-> 0]]
    /\ UNCHANGED <<commodities, countries>>
    /\ RaceFrame

\* row = await fetch_one(SELECT id ...); if row: return int(row["id"])
RLookup(p) ==
    /\ pc = "race"
    /\ res[p].at = "lookup"
    /\ LET found == IdOf(res[p].kind, res[p].key, commodities, countries) IN
       res' = [res EXCEPT ![p].at = IF found # 0 THEN "returned" ELSE "insert",
                          ![p].id = found]
    /\ UNCHANGED <<commodities, countries, budget>>
    /\ RaceFrame

\* what a raising INSERT does to the caller: get_or_create_country wraps the
\* INSERT in try/except and goes on to the re-query, get_or_create_commodity
\* has no handler and the exception leaves the function
AfterFailedInsert(kind) == IF kind = "countries" THEN "requery" ELSE "raised"

\* await execute(INSERT ...)
RInsert(p) ==
    /\ pc = "race"
    /\ res[p].at = "insert"
    /\ IF res[p].kind = "commodities"
       THEN /\ IF CommodityInsertFails(commodities, res[p].key)
               THEN /\ res' = [res EXCEPT ![p].at = AfterFailedInsert("commodities")]
                    /\ UNCHANGED commodities
               ELSE /\ res' = [res EXCEPT ![p].at = "requery"]
                    /\ commodities' = Append(commodities, CommodityRow(res[p].key))
            /\ UNCHANGED countries
       ELSE /\ IF CountryInsertFails(countries, res[p].key, "kept")
               THEN /\ res' = [res EXCEPT ![p].at = AfterFailedInsert("countries")]
                    /\ UNCHANGED countries
               ELSE /\ res' = [res EXCEPT ![p].at = "requery"]
                    /\ countries' = Append(countries, CountryRow(res[p].key, None))
            /\ UNCHANGED commodities
    /\ UNCHANGED budget
    /\ RaceFrame

\* row = await fetch_one(SELECT id ...); return int(row["id"]) if row else 0
RRequery(p) ==
    /\ pc = "race"
    /\ res[p].at = "requery"
    /\ res' = [res EXCEPT ![p].at = "returned",
                          ![p].id = IdOf(res[p].kind, res[p].key,
                                         commodities, countries)]
    /\ UNCHANGED <<commodities, countries, budget>>
    /\ RaceFrame

NextRace ==
    \E p \in Resolvers : RCall(p) \/ RLookup(p) \/ RInsert(p) \/ RRequery(p)

SpecRace == InitRace /\ [][NextRace]_vars

\* C4: when two callers resolve the same new key concurrently and the INSERT
\* of one fails on the duplicate key, the failure is not surfaced: no call
\* ends by raising, and two calls that returned for the same key hold the
\* same id, for commodities as for countries.
C4_DuplicateInsertSwallowed ==
    /\ \A p \in Resolvers : res[p].at # "raised"
    /\ \A p, q \in Resolvers :
          (/\ res[p].at = "returned" /\ res[q].at = "returned"
           /\ res[p].kind = res[q].kind /\ res[p].key = res[q].key)
          => res[p].id = res[q].id /\ res[p].id # 0

----------------------------------------------------------------------------
(* Failures during an ingestion run *)

AllFeeds == 1..Len(ENDPOINTS)

\* C6: in a run of main over the configured feeds, a transport failure of one
\* feed does not keep the other feeds from being fetched: when the run is over
\* every feed has been fetched.
C6_OtherFeedsStillFetched ==
    (pc = "fetch_failed" /\ feed # 0) => fetched = AllFeeds

\* C7: an audit insert that raises is ignored: the step changes no table,
\* keeps the feed's records and leads on to the next audit insert or to the
\* upserts, which start at the first record; and no upsert step, raising or
\* not, touches the audit rows (a run is only ever aborted by an upsert).
C7_AuditFailureIgnored ==
    [][/\ rawFailed' > rawFailed
          => /\ pc' \in {"raw", "upsert", "fetch", "done"}
             /\ UNCHANGED <<facts, commodities, countries, raw_ingest, data>>
       /\ (pc = "raw" /\ pc' = "upsert") => idx' = 1
       /\ pc = "upsert" => raw_ingest' = raw_ingest
       /\ pc' = "aborted" => pc \in {"upsert", "aborted"}
      ]_vars

\* every audit insert of a one-record pass raised and the record was upserted
C7_Witness ==
    /\ Len(data) = 1
    /\ rawFailed = 1
    /\ Len(raw_ingest) = rawStart
    /\ lastCall.outcome = "ok"
    /\ lastCall.rec = data[1]
    /\ facts[lastCall.t] # <<>>

\* outside the audit loop the pass has added one row per record, less the
\* inserts that raised; inside it, one per record handled so far
RawCount ==
    Len(raw_ingest) = rawStart - rawFailed
                      + (IF pc = "raw" THEN idx - 1 ELSE Len(data))

----------------------------------------------------------------------------
(* The analytical queries (queries.py) over the store *)

\* fetch_one / a query function returning None
NoData == [nodata |-> TRUE]

\* an exact quotient n/d (Python computes it in floating point)
Frac(n, d) == <<n, d>>
FracEq(a, b) == a[1] * b[2] = b[1] * a[2]

\* JOIN commodities com ON com.id = row.commodity_id
\* JOIN countries ctry ON ctry.id = row.country_id
HasCommodity(row) == row.commodity_id[1] \in DOMAIN commodities
HasCountry(row) == row.country_id[1] \in DOMAIN countries
Com(row) == commodities[row.commodity_id[1]]
Ctry(row) == countries[row.country_id[1]]

\* SQLite's order of two stored values: NULL sorts before every number
LessV(a, b) == IF a = NULL THEN b # NULL ELSE b # NULL /\ a[1] < b[1]

\* the first row of a result: the least row id of S, 0 when S is empty
FirstOf(S) == IF S = {} THEN 0 ELSE CHOOSE i \in S : \A j \in S : i <= j

\* LIMIT 1 without the ORDER BY
TopUnordered(rows, S, key) == FirstOf(S)

\* ORDER BY key DESC LIMIT 1 over the rows S of table rows
TopDesc(rows, S, key) ==
    FirstOf({i \in S : \A j \in S : ~LessV(rows[i][key], rows[j][key])})

\* the rows of climate_risk_by_country for WHERE com.name = ? AND
\* ctry.code = ? AND byc.year = ?
ByCountryYear(commodity, country_code, year) ==
    LET byc == facts["climate_risk_by_country"] IN
    {i \in DOMAIN byc :
        /\ HasCommodity(byc[i]) /\ HasCountry(byc[i])
        /\ Com(byc[i]).name = V(commodity)
        /\ Ctry(byc[i]).code = V(country_code)
        /\ byc[i].year = V(year)}

\* a percentage that divides by the current value
PercentOfCurrent(delta, base) == V(Frac(delta * 100, base + delta))

\* delta / float(hist) * 100.0 if float(hist) != 0 else None
Percent(delta, base) == IF base # 0 THEN V(Frac(delta * 100, base)) ELSE NULL

\* queries.py compare_country_year_vs_hist
compare_country_year_vs_hist(commodity, country_code, year) ==
    LET byc == facts["climate_risk_by_country"]
        i   == FirstOf(ByCountryYear(commodity, country_code, year))
        row == [commodity |-> Com(byc[i]).name,
                country_code |-> Ctry(byc[i]).code,
                country_name |-> Ctry(byc[i]).name,
                hist_avg_wapr |-> byc[i].hist_avg_wapr,
                this_year_avg_wapr |-> byc[i].this_year_avg_wapr]
        hist == byc[i].hist_avg_wapr
        curr == byc[i].this_year_avg_wapr
    IN  IF i = 0 THEN NoData
        ELSE IF hist = NULL \/ curr = NULL
        THEN [answer |-> row, delta |-> NULL, pct |-> NULL]
        ELSE [answer |-> row, delta |-> V(curr[1] - hist[1]),
              pct |-> Percent(curr[1] - hist[1], hist[1])]

\* "increased" if delta > 0 else "decreased" if delta < 0 else "unchanged"
Trend(delta) ==
    IF delta > 0 THEN "increased" ELSE IF delta < 0 THEN "decreased"
    ELSE "unchanged"

\* queries.py get_eu_risk_comparison
get_eu_risk_comparison(commodity, current_year, previous_year) ==
    LET byc == facts["climate_risk_by_country"]
        ci == FirstOf(ByCountryYear(commodity, CodeEU, current_year))
        pi == FirstOf(ByCountryYear(commodity, CodeEU, previous_year))
        current_wapr == byc[ci].this_year_avg_wapr
        previous_wapr == byc[pi].this_year_avg_wapr
        delta == current_wapr[1] - previous_wapr[1]
    IN  IF ci = 0 \/ pi = 0 THEN NoData
        ELSE IF current_wapr = NULL \/ previous_wapr = NULL THEN NoData
        ELSE [current_avg_wapr |-> current_wapr,
              previous_avg_wapr |-> previous_wapr,
              delta |-> V(delta),
              percent_change |-> Percent(delta, previous_wapr[1]),
              trend |-> Trend(delta)]

RECURSIVE SumOver(_, _, _)
SumOver(rows, S, key) ==
    IF S = {} THEN 0
    ELSE LET i == CHOOSE x \in S : TRUE
         IN  rows[i][key][1] + SumOver(rows, S \ {i}, key)

\* the total of the year's values in place of their mean
EuTotal(year) ==
    LET byc == facts["climate_risk_by_country"]
        S == {i \in DOMAIN byc :
                /\ HasCountry(byc[i])
                /\ Ctry(byc[i]).code = V(CodeEU)
                /\ byc[i].year = V(year)
                /\ byc[i].this_year_avg_wapr # NULL}
    IN  IF S = {} THEN NULL
        ELSE V(Frac(SumOver(byc, S, "this_year_avg_wapr"), 1))

\* SELECT AVG(byc.this_year_avg_wapr) ... WHERE ctry.code = 'EU' AND
\* byc.year = ? AND byc.this_year_avg_wapr IS NOT NULL: the mean as an exact
\* quotient, NULL over no rows
EuAverage(year) ==
    LET byc == facts["climate_risk_by_country"]
        S == {i \in DOMAIN byc :
                /\ HasCountry(byc[i])
                /\ Ctry(byc[i]).code = V(CodeEU)
                /\ byc[i].year = V(year)
                /\ byc[i].this_year_avg_wapr # NULL}
    IN  IF S = {} THEN NULL
        ELSE V(Frac(SumOver(byc, S, "this_year_avg_wapr"), Cardinality(S)))

\* queries.py get_eu_overall_risk_comparison; every number is a quotient
get_eu_overall_risk_comparison(current_year, previous_year) ==
    LET current_wapr == EuAverage(current_year)
        previous_wapr == EuAverage(previous_year)
        c == current_wapr[1]
        p == previous_wapr[1]
        \* c - p, and (c - p) / p * 100
        delta == Frac(c[1] * p[2] - p[1] * c[2], c[2] * p[2])
        pct == Frac(delta[1] * 100 * p[2], delta[2] * p[1])
    IN  IF current_wapr = NULL \/ previous_wapr = NULL THEN NoData
        ELSE [current_avg_wapr |-> current_wapr,
              previous_avg_wapr |-> previous_wapr,
              delta |-> V(delta),
              percent_change |-> IF p[1] # 0 THEN V(pct) ELSE NULL,
              trend |-> Trend(delta[1])]

\* queries.py get_highest_current_risk; commodity is Optional[str]
get_highest_current_risk(commodity) ==
    LET byc == facts["climate_risk_by_country"]
        S == {i \in DOMAIN byc :
                /\ HasCountry(byc[i]) /\ HasCommodity(byc[i])
                /\ byc[i].this_year_avg_wapr # NULL
                /\ Truthy(commodity) => Com(byc[i]).name = Bind(commodity)}
        \* ORDER BY this_year_avg_wapr DESC, year DESC LIMIT 1
        best == {i \in S : \A j \in S :
                    ~LessV(byc[i].this_year_avg_wapr, byc[j].this_year_avg_wapr)}
        i == TopDesc(byc, best, "year")
    IN  IF i = 0 THEN NoData
        ELSE [country_name |-> Ctry(byc[i]).name,
              country_code |-> Ctry(byc[i]).code,
              commodity |-> Com(byc[i]).name,
              this_year_avg_wapr |-> byc[i].this_year_avg_wapr,
              hist_avg_wapr |-> byc[i].hist_avg_wapr,
              year |-> byc[i].year]

\* a scope that always reads the global rows
ScopeCodeGlobalOnly(scope, country_code) == V(GLB)

\* if scope == "country" and country_code: the caller's code, else 'GLB'
ScopeCode(scope, country_code) ==
    IF scope = "country" /\ Truthy(country_code) THEN Bind(country_code)
    ELSE V(GLB)

\* the rows of most_similar_year for WHERE com.name = ? AND ctry.code = ?
SimilarRows(commodity, code) ==
    LET m == facts["most_similar_year"] IN
    {i \in DOMAIN m :
        /\ HasCommodity(m[i]) /\ HasCountry(m[i])
        /\ Com(m[i]).name = Bind(commodity)
        /\ Ctry(m[i]).code = code}

\* queries.py get_most_similar_year
get_most_similar_year(commodity, scope, country_code) ==
    LET m == facts["most_similar_year"]
        i == TopDesc(m, SimilarRows(commodity, ScopeCode(scope, country_code)),
                     "this_growing_season_year")
    IN  IF i = 0 THEN NoData
        ELSE [commodity |-> Com(m[i]).name,
              country_code |-> Ctry(m[i]).code,
              country_name |-> Ctry(m[i]).name,
              m |-> m[i]]

\* a join on commodity and country that ignores the year
JoinedAnyYear(row) ==
    LET g == facts["risk_global_avg_max"] IN
    FirstOf({j \in DOMAIN g :
                /\ g[j].commodity_id = row.commodity_id
                /\ g[j].country_id = row.country_id})

\* LEFT JOIN risk_global_avg_max g ON g.commodity_id = m.commodity_id AND
\* g.country_id = m.country_id AND g.year = m.this_growing_season_year:
\* the first row of g joined to row, 0 when none is
JoinedAggregate(row) ==
    LET g == facts["risk_global_avg_max"] IN
    FirstOf({j \in DOMAIN g :
                /\ g[j].commodity_id = row.commodity_id
                /\ g[j].country_id = row.country_id
                /\ g[j].year # NULL
                /\ g[j].year = row.this_growing_season_year})

\* queries.py get_yield_and_risk_relation
get_yield_and_risk_relation(commodity, scope, country_code) ==
    LET m == facts["most_similar_year"]
        g == facts["risk_global_avg_max"]
        i == TopDesc(m, SimilarRows(commodity, ScopeCode(scope, country_code)),
                     "this_growing_season_year")
        j == JoinedAggregate(m[i])
    IN  IF i = 0 THEN NoData
        ELSE [yield_rating |-> m[i].yield_rating,
              total_yield |-> m[i].total_yield,
              total_yield_unit |-> m[i].total_yield_unit,
              hist_avg_wapr |-> IF j = 0 THEN NULL ELSE g[j].hist_avg_wapr,
              hist_max_wapr |-> IF j = 0 THEN NULL ELSE g[j].hist_max_wapr,
              this_growing_season_year |-> m[i].this_growing_season_year]

----------------------------------------------------------------------------
(* The list queries (queries.py, fetch_all) *)

\* the row ids S in the order given by before, a strict total order on S as
\* a function of pairs; rows equal in the ORDER BY terms keep row id order
RECURSIVE OrderBy(_, _)
OrderBy(S, before) ==
    IF S = {} THEN <<>>
    ELSE LET i == CHOOSE x \in S : \A y \in S \ {x} : before[x, y]
         IN  <<i>> \o OrderBy(S \ {i}, before)

\* LIMIT k (k >= 0) of an ordered result
Limit(ids, k) == SubSeq(ids, 1, IF k < Len(ids) THEN k ELSE Len(ids))

\* fetch_all: the list of result rows
Rows(list) == [rows |-> list]

\* the rows of climate_risk_by_country joined to both entities, of commodity
CommodityRows(commodity) ==
    LET byc == facts["climate_risk_by_country"] IN
    {i \in DOMAIN byc :
        /\ HasCommodity(byc[i]) /\ HasCountry(byc[i])
        /\ Com(byc[i]).name = V(commodity)}

\* ORDER BY col ASC as SQLite sorts it: NULL first
NullsFirstAsc(rows, S, col) ==
    [p \in S \X S |->
        LET a == rows[p[1]][col]
            b == rows[p[2]][col]
        IN  IF a # b THEN LessV(a, b) ELSE p[1] < p[2]]

\* ORDER BY (col IS NULL) ASC, col ASC
NullsLastAsc(rows, S, col) ==
    [p \in S \X S |->
        LET a == rows[p[1]][col]
            b == rows[p[2]][col]
        IN  IF (a = NULL) # (b = NULL) THEN b = NULL
            ELSE IF a # b /\ a # NULL THEN a[1] < b[1]
            ELSE p[1] < p[2]]

\* ORDER BY col DESC, col2 DESC
Desc2(rows, S, col, col2) ==
    [p \in S \X S |->
        LET a == rows[p[1]]
            b == rows[p[2]]
        IN  IF a[col] # b[col] THEN LessV(b[col], a[col])
            ELSE IF a[col2] # b[col2] THEN LessV(b[col2], a[col2])
            ELSE p[1] < p[2]]

\* queries.py get_top_k_lowest_hist_risk
get_top_k_lowest_hist_risk(commodity, k) ==
    LET byc == facts["climate_risk_by_country"]
        S == CommodityRows(commodity)
        ids == Limit(OrderBy(S, NullsLastAsc(byc, S, "hist_avg_wapr")), k)
    IN  Rows([n \in DOMAIN ids |->
                [country_name |-> Ctry(byc[ids[n]]).name,
                 country_code |-> Ctry(byc[ids[n]]).code,
                 hist_avg_wapr |-> byc[ids[n]].hist_avg_wapr]])

\* WHERE byc.this_year_avg_wapr IS NOT NULL AND com.name = ?
RankedRows(commodity) ==
    {i \in CommodityRows(commodity) :
        facts["climate_risk_by_country"][i].this_year_avg_wapr # NULL}

\* queries.py get_top_k_highest_current_risk
get_top_k_highest_current_risk(commodity, k) ==
    LET byc == facts["climate_risk_by_country"]
        S == RankedRows(commodity)
        ids == Limit(OrderBy(S, Desc2(byc, S, "this_year_avg_wapr", "year")), k)
    IN  Rows([n \in DOMAIN ids |->
                [country_name |-> Ctry(byc[ids[n]]).name,
                 country_code |-> Ctry(byc[ids[n]]).code,
                 commodity |-> Com(byc[ids[n]]).name,
                 this_year_avg_wapr |-> byc[ids[n]].this_year_avg_wapr,
                 hist_avg_wapr |-> byc[ids[n]].hist_avg_wapr,
                 year |-> byc[ids[n]].year]])

\* a threshold that admits a difference equal to it
ReachesThreshold(diff, threshold) == diff # NULL /\ diff[1] >= threshold

\* r.avg_risk_score_diff IS NOT NULL AND r.avg_risk_score_diff > ?
Exceeds(diff, threshold) == diff # NULL /\ diff[1] > threshold

\* ORDER BY col DESC
Desc(rows, S, col) ==
    [p \in S \X S |->
        IF rows[p[1]][col] # rows[p[2]][col]
        THEN LessV(rows[p[2]][col], rows[p[1]][col])
        ELSE p[1] < p[2]]

\* queries.py get_upcoming_spike_regions; threshold in tenths
get_upcoming_spike_regions(commodity, threshold) ==
    LET box == facts["risk_compared_hist_box"]
        S == {i \in DOMAIN box :
                /\ HasCommodity(box[i]) /\ HasCountry(box[i])
                /\ Com(box[i]).name = V(commodity)
                /\ box[i].upcoming_season = V(1)
                /\ Exceeds(box[i].avg_risk_score_diff, threshold)}
        ids == OrderBy(S, Desc(box, S, "avg_risk_score_diff"))
    IN  Rows([n \in DOMAIN ids |->
                [country_name |-> Ctry(box[ids[n]]).name,
                 country_code |-> Ctry(box[ids[n]]).code,
                 avg_risk_score_diff |-> box[ids[n]].avg_risk_score_diff,
                 upcoming_year_risk_score |->
                     box[ids[n]].upcoming_year_risk_score]])

\* ORDER BY col ASC (no row of S holds NULL in col)
Asc(rows, S, col) ==
    [p \in S \X S |->
        IF rows[p[1]][col] # rows[p[2]][col]
        THEN LessV(rows[p[1]][col], rows[p[2]][col])
        ELSE p[1] < p[2]]

\* a range that leaves out its upper bound
BetweenExclusive(year, lo, hi) == year # NULL /\ lo <= year[1] /\ year[1] < hi

\* r.year BETWEEN ? AND ?
Between(year, lo, hi) == year # NULL /\ lo <= year[1] /\ year[1] <= hi

\* queries.py get_trend_max_risk
get_trend_max_risk(commodity, start_year, end_year) ==
    LET g == facts["risk_global_avg_max"]
        S == {i \in DOMAIN g :
                /\ HasCommodity(g[i])
                /\ Com(g[i]).name = V(commodity)
                /\ Between(g[i].year, start_year, end_year)}
        ids == OrderBy(S, Asc(g, S, "year"))
    IN  Rows([n \in DOMAIN ids |->
                [year |-> g[ids[n]].year,
                 hist_max_wapr |-> g[ids[n]].hist_max_wapr]])

\* queries.py get_global_avg_for_month
get_global_avg_for_month(commodity, year, month) ==
    LET g == facts["risk_global_avg_max"]
        i == FirstOf({j \in DOMAIN g :
                        /\ HasCommodity(g[j]) /\ HasCountry(g[j])
                        /\ Com(g[j]).name = V(commodity)
                        /\ Ctry(g[j]).code = V(GLB)
                        /\ g[j].year = V(year)})
    IN  IF i = 0 THEN NoData
        ELSE [commodity |-> commodity, year |-> year, month |-> month,
              global_avg_wapr |-> g[i].hist_avg_wapr,
              global_max_wapr |-> g[i].hist_max_wapr,
              region |-> Global]

\* a classification that counts an unchanged value as an increase
DirectionNonStrict(delta) == IF delta >= 0 THEN "increase" ELSE "decrease"

\* "increase" if delta > 0 else ("decrease" if delta < 0 else "no_change")
Direction(delta) ==
    IF delta > 0 THEN "increase" ELSE IF delta < 0 THEN "decrease"
    ELSE "no_change"

\* queries.py get_country_season_change
get_country_season_change(country_code, commodity) ==
    LET byc == facts["climate_risk_by_country"]
        S == {i \in CommodityRows(commodity) :
                Ctry(byc[i]).code = V(country_code)}
        \* ORDER BY byc.year DESC LIMIT 2
        rows == Limit(OrderBy(S, Desc2(byc, S, "year", "year")), 2)
        latest == byc[rows[1]]
        current_wapr == latest.this_year_avg_wapr
        hist_avg == latest.hist_avg_wapr
        prev_wapr == IF Len(rows) >= 2 /\ byc[rows[2]].this_year_avg_wapr # NULL
                     THEN byc[rows[2]].this_year_avg_wapr
                     ELSE hist_avg
        delta == current_wapr[1] - prev_wapr[1]
    IN  IF Len(rows) < 1 THEN NoData
        ELSE IF current_wapr = NULL \/ hist_avg = NULL THEN NoData
        ELSE [commodity |-> commodity,
              country_code |-> country_code,
              current_year |-> latest.year,
              current_wapr |-> current_wapr,
              previous_wapr |-> prev_wapr,
              delta |-> V(delta),
              direction |-> Direction(delta)]

----------------------------------------------------------------------------
(* The query routes (routers/query_routes.py) *)

\* CountrySeasonChangeRequest: commodity and country_code
SeasonRequest(commodity, country_code) ==
    [op |-> "country_season_change", commodity |-> commodity,
     country_code |-> country_code]

\* UpcomingSpikeRequest: commodity and threshold (in tenths)
SpikeRequest(commodity, threshold) ==
    [op |-> "upcoming_spike_regions", commodity |-> commodity,
     threshold |-> threshold]

\* TrendRequest: commodity, start_year and end_year
TrendRequest(commodity, start_year, end_year) ==
    [op |-> "trend_max_risk", commodity |-> commodity,
     start_year |-> start_year, end_year |-> end_year]

\* GlobalMonthAvgRequest: commodity, year and month
MonthRequest(commodity, year, month) ==
    [op |-> "global_avg_for_month", commodity |-> commodity, year |-> year,
     month |-> month]

\* TopKRequest: commodity and k (1 <= k <= 50)
TopKRequest(op, commodity, k) == [op |-> op, commodity |-> commodity, k |-> k]

\* a request: the route and the fields of its request model
Request(op, commodity, country_code, year, previous_year, scope) ==
    [op |-> op, commodity |-> commodity, country_code |-> country_code,
     year |-> year, previous_year |-> previous_year, scope |-> scope]

\* result = await queries.<function>(db, ...)
Evaluate(q) ==
    CASE q.op = "highest_current_risk" ->
           get_highest_current_risk(q.commodity)
      [] q.op = "compare_country_year_vs_hist" ->
           compare_country_year_vs_hist(q.commodity.s, q.country_code.s, q.year)
      [] q.op = "most_similar_year" ->
           get_most_similar_year(q.commodity, q.scope, q.country_code)
      [] q.op = "yield_and_risk_relation" ->
           get_yield_and_risk_relation(q.commodity, q.scope, q.country_code)
      [] q.op = "eu_risk_comparison" ->
           get_eu_risk_comparison(q.commodity.s, q.year, q.previous_year)
      [] q.op = "eu_risk_comparison_overall" ->
           get_eu_overall_risk_comparison(q.year, q.previous_year)
      [] q.op = "country_season_change" ->
           get_country_season_change(q.country_code.s, q.commodity.s)
      [] q.op = "upcoming_spike_regions" ->
           get_upcoming_spike_regions(q.commodity.s, q.threshold)
      [] q.op = "trend_max_risk" ->
           get_trend_max_risk(q.commodity.s, q.start_year, q.end_year)
      [] q.op = "global_avg_for_month" ->
           get_global_avg_for_month(q.commodity.s, q.year, q.month)
      [] q.op = "top_k_lowest_hist_risk" ->
           get_top_k_lowest_hist_risk(q.commodity.s, q.k)
      [] q.op = "top_k_highest_current_risk" ->
           get_top_k_highest_current_risk(q.commodity.s, q.k)

\* if result is None: raise HTTPException(status_code=404, detail=...)
\* return {"answer": result, "params": req.model_dump()}
Respond(q, result) ==
    IF q.op = "global_avg_for_month"
       /\ (IF result = NoData THEN TRUE ELSE result.global_avg_wapr = NULL)
    THEN [status_code |-> 404,
          detail |-> "No data available for given month"]
    ELSE IF result = NoData
    THEN [status_code |-> 404,
          detail |-> CASE q.op = "eu_risk_comparison" ->
                            "No data available for EU countries"
                       [] q.op = "eu_risk_comparison_overall" ->
                            "No overall data available for EU"
                       [] q.op = "country_season_change" ->
                            "Insufficient data to compare"
                       [] OTHER -> "No data available"]
    ELSE [status_code |-> 200, answer |-> result, params |-> q]

\* a request handler that also writes the request to the audit relation
QueryLogging(Q) ==
    /\ pc = "done"
    /\ \E q \in Q :
          /\ qres' = [q |-> q, result |-> Evaluate(q),
                      response |-> Respond(q, Evaluate(q))]
          /\ raw_ingest' = Append(raw_ingest,
                                  [endpoint_name |-> q.op, redis_key |-> NULL,
                                   payload |-> "", ingested_at |-> now])
    /\ UNCHANGED <<commodities, countries, facts, pc, feed, data, idx, now,
                   runs, budget, faults, fetched, rawStart, rawFailed,
                   lastCall, res>>

\* one request served against the committed store, after an ingestion run
Query(Q) ==
    /\ pc = "done"
    /\ \E q \in Q :
          qres' = [q |-> q, result |-> Evaluate(q),
                   response |-> Respond(q, Evaluate(q))]
    /\ UNCHANGED <<commodities, countries, facts, raw_ingest, pc, feed, data,
                   idx, now, runs, budget, faults, fetched, rawStart,
                   rawFailed, lastCall, res>>

\* an empty store that one ingestion run fills before requests are served
InitQuery == IngestInit({1}, 0, MaxStored)

\* an ingestion run over the feed records U, then requests of Q
NextQuery(U, Q) ==
    \/ FetchOk(U)
    \/ RawInsert
    \/ UpsertRecord
    \/ Query(Q)

----------------------------------------------------------------------------
(* Comparisons *)

Years == {2024, 2025}

\* Rows of one country with both values, without the historical value,
\* without the current value and with a historical value of 0; rows of the EU
\* for two years and two commodities
CompareRecords ==
    [f \in 0..Len(ENDPOINTS) |->
        IF f = 1 THEN {"a1", "a2", "h1", "h2", "e1", "e2", "e3", "e4", "e5"}
        ELSE {}]

CompareRequests ==
    {Request("compare_country_year_vs_hist", JStr(Rice), JStr(CodeIN), y, 0, "")
        : y \in Years}
    \cup {Request("eu_risk_comparison", JStr(Rice), None, y[1], y[2], "")
            : y \in Years \X Years}
    \cup {Request("eu_risk_comparison_overall", None, None, y[1], y[2], "")
            : y \in {<<2025, 2024>>, <<2024, 2025>>}}

SpecCompare == InitQuery /\ [][NextQuery(CompareRecords, CompareRequests)]_vars

\* the stored rows of (commodity, country code, year), straight from the
\* relations
StoredRows(name, code, year) ==
    LET byc == facts["climate_risk_by_country"] IN
    {i \in DOMAIN byc :
        /\ \E c \in DOMAIN commodities :
              byc[i].commodity_id = V(c) /\ commodities[c].name = V(name)
        /\ \E c \in DOMAIN countries :
              byc[i].country_id = V(c) /\ countries[c].code = V(code)
        /\ byc[i].year = V(year)}

\* delta and pct of a result follow the rule for the operands base (the
\* denominator) and curr, stored values in tenths
FollowsRule(delta, pct, base, curr) ==
    IF base = NULL \/ curr = NULL THEN delta = NULL /\ pct = NULL
    ELSE /\ delta = V(curr[1] - base[1])
         /\ IF base[1] = 0 THEN pct = NULL
            ELSE /\ pct # NULL
                 /\ FracEq(pct[1], Frac((curr[1] - base[1]) * 100, base[1]))

\* the result r of the point comparison q follows the rule on its stored row
PointRule(q, r) ==
    LET byc == facts["climate_risk_by_country"] IN
    \A i \in StoredRows(q.commodity.s, q.country_code.s, q.year) :
        /\ r # NoData
        /\ {"delta", "pct"} \subseteq DOMAIN r
        /\ FollowsRule(r.delta, r.pct, byc[i].hist_avg_wapr,
                       byc[i].this_year_avg_wapr)

\* the result r of the EU comparison q of one commodity: no data when a year
\* has no row or no value, the rule otherwise
EuRule(q, r) ==
    LET byc == facts["climate_risk_by_country"]
        cur == StoredRows(q.commodity.s, CodeEU, q.year)
        prev == StoredRows(q.commodity.s, CodeEU, q.previous_year)
    IN  IF cur = {} \/ prev = {} THEN r = NoData
        ELSE \A i \in cur, j \in prev :
                LET c == byc[i].this_year_avg_wapr
                    p == byc[j].this_year_avg_wapr
                IN  IF c = NULL \/ p = NULL THEN r = NoData
                    ELSE /\ r # NoData
                         /\ FollowsRule(r.delta, r.percent_change, p, c)

\* the EU rows of a year that carry a current value, whatever the commodity
EuValues(year) ==
    LET byc == facts["climate_risk_by_country"] IN
    {i \in DOMAIN byc :
        /\ \E c \in DOMAIN countries :
              byc[i].country_id = V(c) /\ countries[c].code = V(CodeEU)
        /\ byc[i].year = V(year)
        /\ byc[i].this_year_avg_wapr # NULL}

\* the result r of the overall EU comparison q: the rule on the two means
EuOverallRule(q, r) ==
    LET byc == facts["climate_risk_by_country"]
        cur == EuValues(q.year)
        prev == EuValues(q.previous_year)
        sc == SumOver(byc, cur, "this_year_avg_wapr")
        sp == SumOver(byc, prev, "this_year_avg_wapr")
        nc == Cardinality(cur)
        np == Cardinality(prev)
    IN  IF cur = {} \/ prev = {} THEN r = NoData
        ELSE /\ r # NoData
             /\ r.delta # NULL
             /\ FracEq(r.delta[1], Frac(sc * np - sp * nc, nc * np))
             /\ IF sp = 0 THEN r.percent_change = NULL
                ELSE /\ r.percent_change # NULL
                     /\ FracEq(r.percent_change[1],
                               Frac((sc * np - sp * nc) * 100, sp * nc))

\* C9: whenever a comparison is served, its result follows the rule: on a
\* stored row compare_country_year_vs_hist returns delta and pct, both
\* empty if the historical or the current value is absent, otherwise
\* delta = current - historical and pct = delta / historical * 100, with pct
\* empty (and delta set) when historical is 0; the EU comparisons compute
\* delta and percent the same way from the two years' values and give no data
\* when a value is missing
C9_ComparisonRule ==
    [][qres' # qres =>
        LET q == qres'.q
            r == qres'.result
        IN  CASE q.op = "compare_country_year_vs_hist" -> PointRule(q, r)
              [] q.op = "eu_risk_comparison" -> EuRule(q, r)
              [] q.op = "eu_risk_comparison_overall" -> EuOverallRule(q, r)
              [] OTHER -> TRUE]_vars

\* a point comparison was served from a row whose historical value is 0
C9_Witness ==
    /\ qres # <<>>
    /\ qres.q.op = "compare_country_year_vs_hist"
    /\ qres.result # NoData
    /\ qres.result.answer.hist_avg_wapr = V(0)
    /\ qres.result.delta = V(250)
    /\ qres.result.pct = NULL

----------------------------------------------------------------------------
(* Single-answer queries with and without a matching row *)

\* Rows of climate_risk_by_country with and without a current value and one
\* without a country, a global aggregate, and similar-year rows of the global
\* scope and of one country
AnswerRecords ==
    [f \in 0..Len(ENDPOINTS) |->
        CASE f = 1 -> {"a1", "h2", "a4"}
          [] f = 4 -> {"g1"}
          [] f = 5 -> {"m1", "m3"}
          [] OTHER -> {}]

Scopes == {"global", "country"}

AnswerRequests ==
    {Request("highest_current_risk", c, None, 0, 0, "")
        : c \in {None, JStr(Rice), JStr(Wheat)}}
    \cup {Request("compare_country_year_vs_hist", JStr(Rice), JStr(CodeIN),
                  y, 0, "") : y \in Years}
    \cup {Request(op, JStr(Rice), cc, 0, 0, sc)
            : op \in {"most_similar_year", "yield_and_risk_relation"},
              cc \in {None, JStr(CodeIN)}, sc \in Scopes}

SpecAnswer == InitQuery /\ [][NextQuery(AnswerRecords, AnswerRequests)]_vars

\* row of a fact relation belongs to the commodity called name and to the
\* country of the given code
RowOf(row, name, code) ==
    /\ \E c \in DOMAIN commodities :
          row.commodity_id = V(c) /\ commodities[c].name = V(name)
    /\ \E c \in DOMAIN countries :
          row.country_id = V(c) /\ countries[c].code = V(code)

\* some stored row matches the filters of request q
Matches(q) ==
    LET byc == facts["climate_risk_by_country"]
        m == facts["most_similar_year"]
    IN  CASE q.op = "highest_current_risk" ->
               \E i \in DOMAIN byc :
                  /\ byc[i].this_year_avg_wapr # NULL
                  /\ \E n \in {Rice, Wheat}, code \in {CodeIN, CodeEU, GLB} :
                        /\ RowOf(byc[i], n, code)
                        /\ q.commodity # None => q.commodity = JStr(n)
          [] q.op = "compare_country_year_vs_hist" ->
               StoredRows(q.commodity.s, q.country_code.s, q.year) # {}
          [] q.op \in {"most_similar_year", "yield_and_risk_relation"} ->
               \E i \in DOMAIN m :
                  RowOf(m[i], q.commodity.s,
                        IF q.scope = "country" /\ q.country_code # None
                        THEN q.country_code.s ELSE GLB)

----------------------------------------------------------------------------
(* Rankings *)

\* Rows of one commodity for two countries and two years, with and without
\* the historical and the current value, and a row of another commodity
RankRecords ==
    [f \in 0..Len(ENDPOINTS) |->
        IF f = 1 THEN {"a1", "a2", "h1", "h2", "e2", "e4", "e5"} ELSE {}]

RankRequests ==
    {TopKRequest(op, JStr(Rice), k)
        : op \in {"top_k_lowest_hist_risk", "top_k_highest_current_risk"},
          k \in 1..MaxK}

SpecRank == InitQuery /\ [][NextQuery(RankRecords, RankRequests)]_vars

\* the stored rows of climate_risk_by_country of the commodity called name
\* that have a country, straight from the relations
RowsOfCommodity(name) ==
    LET byc == facts["climate_risk_by_country"] IN
    {i \in DOMAIN byc :
        /\ \E c \in DOMAIN commodities :
              byc[i].commodity_id = V(c) /\ commodities[c].name = V(name)
        /\ \E c \in DOMAIN countries : byc[i].country_id = V(c)}

\* the code of the country of row i of climate_risk_by_country
CodeOfRow(i) ==
    countries[facts["climate_risk_by_country"][i].country_id[1]].code

\* value x may stand before value y in an ascending ranking with the absent
\* values last
AscNullsLast(x, y) == y = NULL \/ (x # NULL /\ x[1] <= y[1])

\* value x may stand before value y in a descending ranking with the absent
\* values last
DescNullsLast(x, y) == y = NULL \/ (x # NULL /\ x[1] >= y[1])

\* the one-to-one assignments of the entries of list to stored rows of S
Picks(list, S) ==
    {f \in [DOMAIN list -> S] :
        \A a, b \in DOMAIN list : f[a] = f[b] => a = b}

Least(a, b) == IF a < b THEN a ELSE b

\* the list is the first k of the rows of the commodity, ascending in
\* hist_avg_wapr with the absent values last
LowestRule(q, list) ==
    LET byc == facts["climate_risk_by_country"]
        S == RowsOfCommodity(q.commodity.s)
    IN  /\ Len(list) = Least(q.k, Cardinality(S))
        /\ \A a, b \in DOMAIN list :
              a < b => AscNullsLast(list[a].hist_avg_wapr, list[b].hist_avg_wapr)
        /\ \E f \in Picks(list, S) :
              /\ \A n \in DOMAIN list :
                    /\ list[n].hist_avg_wapr = byc[f[n]].hist_avg_wapr
                    /\ list[n].country_code = CodeOfRow(f[n])
              /\ \A i \in S \ {f[n] : n \in DOMAIN list}, n \in DOMAIN list :
                    AscNullsLast(list[n].hist_avg_wapr, byc[i].hist_avg_wapr)

\* C11: get_top_k_lowest_hist_risk(commodity, k) returns at most k rows of
\* the commodity, non-decreasing in hist_avg_wapr with the rows without a value
\* after all rows with one, and they are the first k of the stored rows in
\* that order
C11_LowestRanking ==
    [][(qres' # qres /\ qres'.q.op = "top_k_lowest_hist_risk")
        => LowestRule(qres'.q, qres'.result.rows)]_vars

\* of three stored rows, one without a historical value, the two valued ones
\* were returned in ascending order
C11_Witness ==
    /\ qres # <<>>
    /\ qres.q.op = "top_k_lowest_hist_risk"
    /\ qres.q.k = 2
    /\ Cardinality(RowsOfCommodity(Rice)) = 3
    /\ \E i \in RowsOfCommodity(Rice) :
          facts["climate_risk_by_country"][i].hist_avg_wapr = NULL
    /\ Len(qres.result.rows) = 2
    /\ qres.result.rows[2].hist_avg_wapr # NULL
    /\ qres.result.rows[1].hist_avg_wapr[1] < qres.result.rows[2].hist_avg_wapr[1]

\* the list is the first k of the rows of the commodity, descending in
\* this_year_avg_wapr with the absent values last
HighestRule(q, list) ==
    LET byc == facts["climate_risk_by_country"]
        S == RowsOfCommodity(q.commodity.s)
    IN  /\ Len(list) = Least(q.k, Cardinality(S))
        /\ \A a, b \in DOMAIN list :
              a < b => DescNullsLast(list[a].this_year_avg_wapr,
                                     list[b].this_year_avg_wapr)
        /\ \E f \in Picks(list, S) :
              /\ \A n \in DOMAIN list :
                    /\ list[n].this_year_avg_wapr = byc[f[n]].this_year_avg_wapr
                    /\ list[n].country_code = CodeOfRow(f[n])
              /\ \A i \in S \ {f[n] : n \in DOMAIN list}, n \in DOMAIN list :
                    DescNullsLast(list[n].this_year_avg_wapr,
                                  byc[i].this_year_avg_wapr)

\* C12: get_top_k_highest_current_risk(commodity, k) returns at most k rows,
\* non-increasing in this_year_avg_wapr, and the rows without a current value
\* take part in the ranking, after all rows with one
C12_HighestRanking ==
    [][(qres' # qres /\ qres'.q.op = "top_k_highest_current_risk")
        => HighestRule(qres'.q, qres'.result.rows)]_vars

----------------------------------------------------------------------------
(* Season-over-season change *)

\* Snapshots of one country and commodity for three years: with both values,
\* without the historical or the current value, with equal and with falling
\* current values; and a snapshot of another country
SeasonRecords ==
    [f \in 0..Len(ENDPOINTS) |->
        IF f = 1 THEN {"a1", "a2", "h1", "h2", "s1", "s2", "s3", "e1"}
        ELSE {}]

SeasonRequests == {SeasonRequest(JStr(Rice), JStr(CodeIN))}

SpecSeason == InitQuery /\ [][NextQuery(SeasonRecords, SeasonRequests)]_vars

\* C13: in every result of get_country_season_change, direction is "increase"
\* iff delta > 0, "decrease" iff delta < 0 and "no_change" iff delta = 0, and
\* delta is current_wapr - previous_wapr of the same result
C13_DirectionBySign ==
    [][(qres' # qres /\ qres'.q.op = "country_season_change"
            /\ qres'.result # NoData)
        => LET r == qres'.result IN
           /\ r.delta = V(r.current_wapr[1] - r.previous_wapr[1])
           /\ r.direction \in {"increase", "decrease", "no_change"}
           /\ r.direction = "increase" <=> r.delta[1] > 0
           /\ r.direction = "decrease" <=> r.delta[1] < 0
           /\ r.direction = "no_change" <=> r.delta[1] = 0]_vars

\* two snapshots with equal current values were compared
C13_Witness ==
    /\ qres # <<>>
    /\ qres.q.op = "country_season_change"
    /\ qres.result # NoData
    /\ Cardinality(StoredRows(Rice, CodeIN, 2025)
                   \cup StoredRows(Rice, CodeIN, 2024)) = 2
    /\ qres.result.delta = V(0)
    /\ qres.result.direction = "no_change"

\* the snapshots of the country and commodity, straight from the relations
Snapshots(name, code) ==
    {i \in DOMAIN facts["climate_risk_by_country"] :
        RowOf(facts["climate_risk_by_country"][i], name, code)}

\* the snapshot of S with the greatest year (0: none)
Latest(S) ==
    LET byc == facts["climate_risk_by_country"] IN
    IF S = {} THEN 0
    ELSE CHOOSE i \in S : \A j \in S : ~LessV(byc[i].year, byc[j].year)

\* the season change r answers request q as specified
SeasonRule(q, r) ==
    LET byc == facts["climate_risk_by_country"]
        S == Snapshots(q.commodity.s, q.country_code.s)
        l == Latest(S)
        p == Latest(S \ {l})
    IN  /\ r = NoData <=> S = {}
        /\ (p # 0 /\ byc[l].this_year_avg_wapr # NULL
                  /\ byc[p].this_year_avg_wapr # NULL)
              => /\ r # NoData
                 /\ r.delta = V(byc[l].this_year_avg_wapr[1]
                                - byc[p].this_year_avg_wapr[1])
        /\ (l # 0 /\ p = 0 /\ byc[l].this_year_avg_wapr # NULL
                  /\ byc[l].hist_avg_wapr # NULL)
              => /\ r # NoData
                 /\ r.delta = V(byc[l].this_year_avg_wapr[1]
                                - byc[l].hist_avg_wapr[1])

\* C17: get_country_season_change compares the current values of the two
\* snapshots with the greatest years; with a single snapshot it compares
\* that snapshot's current value with its historical average; it reports no
\* data only when the country and commodity have no snapshot at all
C17_SeasonChange ==
    [][(qres' # qres /\ qres'.q.op = "country_season_change")
        => SeasonRule(qres'.q, qres'.result)]_vars

----------------------------------------------------------------------------
(* Upcoming-spike regions *)

\* Regions of one commodity with a difference of 5.0, 5.1, 8.0 and none, one
\* that is not upcoming, and a region of another commodity
SpikeRecords ==
    [f \in 0..Len(ENDPOINTS) |->
        IF f = 2 THEN {"b1", "b2", "p1", "p2", "p3", "p4", "p5"} ELSE {}]

\* thresholds 0.0 and 5.0
Thresholds == {0, 50}

SpikeRequests == {SpikeRequest(JStr(Rice), t) : t \in Thresholds}

SpecSpike == InitQuery /\ [][NextQuery(SpikeRecords, SpikeRequests)]_vars

\* the stored regions of the commodity called name that are upcoming and
\* whose difference is above the threshold, straight from the relations
Spikes(name, threshold) ==
    LET box == facts["risk_compared_hist_box"] IN
    {i \in DOMAIN box :
        /\ \E c \in DOMAIN commodities :
              box[i].commodity_id = V(c) /\ commodities[c].name = V(name)
        /\ \E c \in DOMAIN countries : box[i].country_id = V(c)
        /\ box[i].upcoming_season = V(1)
        /\ box[i].avg_risk_score_diff # NULL
        /\ box[i].avg_risk_score_diff[1] > threshold}

\* C14: get_upcoming_spike_regions(commodity, threshold) returns exactly the
\* risk_compared_hist_box rows of the commodity with upcoming_season = 1 and
\* an avg_risk_score_diff that is present and strictly greater than the
\* threshold, all of them, ordered non-increasing by avg_risk_score_diff
C14_SpikeRegions ==
    [][(qres' # qres /\ qres'.q.op = "upcoming_spike_regions")
        => LET box == facts["risk_compared_hist_box"]
               list == qres'.result.rows
               S == Spikes(qres'.q.commodity.s, qres'.q.threshold)
           IN  /\ Len(list) = Cardinality(S)
               /\ \E f \in Picks(list, S) :
                     \A n \in DOMAIN list :
                        /\ list[n].avg_risk_score_diff
                              = box[f[n]].avg_risk_score_diff
                        /\ list[n].country_code
                              = countries[box[f[n]].country_id[1]].code
               /\ \A a, b \in DOMAIN list :
                     a < b => list[a].avg_risk_score_diff[1]
                                >= list[b].avg_risk_score_diff[1]]_vars

\* with threshold 5.0, a region at exactly 5.0 was left out and the regions
\* at 8.0 and 5.1 were returned in that order
C14_Witness ==
    /\ qres # <<>>
    /\ qres.q.op = "upcoming_spike_regions"
    /\ qres.q.threshold = 50
    /\ \E i \in DOMAIN facts["risk_compared_hist_box"] :
          /\ facts["risk_compared_hist_box"][i].avg_risk_score_diff = V(50)
          /\ facts["risk_compared_hist_box"][i].upcoming_season = V(1)
    /\ Len(qres.result.rows) = 2
    /\ qres.result.rows[1].avg_risk_score_diff = V(80)
    /\ qres.result.rows[2].avg_risk_score_diff = V(51)

----------------------------------------------------------------------------
(* Highest current risk *)

\* Two records of one key with current values 30.0 and 38.0, rows with the
\* value 30.0 of another year and of another country, a row without a current
\* value and a row of another commodity
HighestRecords ==
    [f \in 0..Len(ENDPOINTS) |->
        IF f = 1 THEN {"a1", "a2", "s1", "h2", "e1", "e4"} ELSE {}]

HighestRequests ==
    {Request("highest_current_risk", c, None, 0, 0, "")
        : c \in {None, JStr(Rice), JStr(Wheat)}}

SpecHighest == InitQuery /\ [][NextQuery(HighestRecords, HighestRequests)]_vars

\* the stored rows with a current value, of the commodity if one is given
Valued(commodity) ==
    LET byc == facts["climate_risk_by_country"] IN
    {i \in DOMAIN byc :
        /\ byc[i].this_year_avg_wapr # NULL
        /\ \E c \in DOMAIN countries : byc[i].country_id = V(c)
        /\ \E c \in DOMAIN commodities :
              /\ byc[i].commodity_id = V(c)
              /\ commodity # None => commodities[c].name = V(commodity.s)}

\* the records ingested so far, in order
Ingested == [i \in DOMAIN raw_ingest |-> raw_ingest[i].payload]

\* C15: get_highest_current_risk returns the row with the greatest present
\* this_year_avg_wapr, of the given commodity or of all rows, the greater
\* year winning a tie, and no data when no row qualifies; after the records
\* with 30.0 and then 38.0 for (Rice, IN, 2025) the answer for Rice is 38.0 and
\* no row holds 30.0
C15_HighestCurrentRisk ==
    [][(qres' # qres /\ qres'.q.op = "highest_current_risk")
        => LET byc == facts["climate_risk_by_country"]
               r == qres'.result
               S == Valued(qres'.q.commodity)
           IN  /\ r = NoData <=> S = {}
               /\ r # NoData =>
                    \E i \in S :
                       /\ r.this_year_avg_wapr = byc[i].this_year_avg_wapr
                       /\ r.year = byc[i].year
                       /\ r.country_code = CodeOfRow(i)
                       /\ \A j \in S :
                            \/ byc[j].this_year_avg_wapr[1]
                                  < byc[i].this_year_avg_wapr[1]
                            \/ /\ byc[j].this_year_avg_wapr
                                     = byc[i].this_year_avg_wapr
                               /\ ~LessV(byc[i].year, byc[j].year)
               /\ (Ingested = <<"a1", "a2">> /\ qres'.q.commodity = JStr(Rice))
                    => /\ r # NoData
                       /\ r.this_year_avg_wapr = V(380)
                       /\ \A i \in DOMAIN byc :
                             byc[i].this_year_avg_wapr # V(300)]_vars

\* the records with 30.0 and then 38.0 were ingested and the query for Rice
\* answered 38.0
C15_Witness ==
    /\ qres # <<>>
    /\ qres.q.op = "highest_current_risk"
    /\ qres.q.commodity = JStr(Rice)
    /\ Ingested = <<"a1", "a2">>
    /\ qres.result # NoData
    /\ qres.result.this_year_avg_wapr = V(380)
    /\ Len(facts["climate_risk_by_country"]) = 1

----------------------------------------------------------------------------
(* Trend of the maximum risk *)

\* Aggregates of one commodity for 2023, 2024 (of one country) and 2025, one
\* without a year, and an aggregate of another commodity
TrendRecords ==
    [f \in 0..Len(ENDPOINTS) |->
        IF f = 4 THEN {"g1", "g3", "t1", "t2", "t3"} ELSE {}]

TrendYears == 2023..2025

TrendRequests ==
    {TrendRequest(JStr(Rice), y[1], y[2]) : y \in TrendYears \X TrendYears}

SpecTrend == InitQuery /\ [][NextQuery(TrendRecords, TrendRequests)]_vars

\* the stored aggregates of the commodity called name with a year from lo to
\* hi, straight from the relations
InRange(name, lo, hi) ==
    LET g == facts["risk_global_avg_max"] IN
    {i \in DOMAIN g :
        /\ \E c \in DOMAIN commodities :
              g[i].commodity_id = V(c) /\ commodities[c].name = V(name)
        /\ \E y \in lo..hi : g[i].year = V(y)}

\* C18: get_trend_max_risk(commodity, start_year, end_year) returns exactly
\* the stored risk_global_avg_max rows of the commodity with
\* start_year <= year <= end_year, in non-decreasing year order: nothing for
\* a year without a row, and the empty list when start_year > end_year
C18_TrendSeries ==
    [][(qres' # qres /\ qres'.q.op = "trend_max_risk")
        => LET g == facts["risk_global_avg_max"]
               list == qres'.result.rows
               S == InRange(qres'.q.commodity.s, qres'.q.start_year,
                            qres'.q.end_year)
           IN  /\ Len(list) = Cardinality(S)
               /\ \E f \in Picks(list, S) :
                     \A n \in DOMAIN list :
                        /\ list[n].year = g[f[n]].year
                        /\ list[n].hist_max_wapr = g[f[n]].hist_max_wapr
               /\ \A a, b \in DOMAIN list :
                     a < b => list[a].year[1] <= list[b].year[1]
               /\ qres'.q.start_year > qres'.q.end_year => list = <<>>]_vars

\* the range 2023..2025 was asked with rows stored for 2023 and 2025 only,
\* and gave those two entries
C18_Witness ==
    /\ qres # <<>>
    /\ qres.q.op = "trend_max_risk"
    /\ qres.q.start_year = 2023 /\ qres.q.end_year = 2025
    /\ InRange(Rice, 2024, 2024) = {}
    /\ Len(qres.result.rows) = 2
    /\ qres.result.rows[1].year = V(2023)
    /\ qres.result.rows[2].year = V(2025)

----------------------------------------------------------------------------
(* Queries as reads *)

\* A few rows in each relation the queries read
PureRecords ==
    [f \in 0..Len(ENDPOINTS) |->
        CASE f = 1 -> {"a1", "e2"}
          [] f = 2 -> {"p5"}
          [] f = 4 -> {"g1"}
          [] f = 5 -> {"m1"}
          [] OTHER -> {}]

\* one request of every route
PureRequests ==
    {Request("highest_current_risk", None, None, 0, 0, ""),
     Request("compare_country_year_vs_hist", JStr(Rice), JStr(CodeIN),
             2025, 0, ""),
     Request("most_similar_year", JStr(Rice), None, 0, 0, "global"),
     Request("yield_and_risk_relation", JStr(Rice), None, 0, 0, "global"),
     Request("eu_risk_comparison", JStr(Rice), None, 2025, 2024, ""),
     Request("eu_risk_comparison_overall", None, None, 2024, 2024, ""),
     MonthRequest(JStr(Rice), 2025, 1),
     TopKRequest("top_k_lowest_hist_risk", JStr(Rice), 1),
     TopKRequest("top_k_highest_current_risk", JStr(Rice), 1),
     TrendRequest(JStr(Rice), 2025, 2025),
     SeasonRequest(JStr(Rice), JStr(CodeIN)),
     SpikeRequest(JStr(Rice), 0)}

SpecPure == InitQuery /\ [][NextQuery(PureRecords, PureRequests)]_vars

\* the relations of the store
Store == <<commodities, countries, facts, raw_ingest>>

\* C16: no query modifies the store: every relation is the same before and
\* after a request is served, so whatever requests were served before it, in
\* whatever order, the last answer is the one its query gives when run alone
\* against the store
C16_QueriesPure ==
    /\ [](qres # <<>> => qres.result = Evaluate(qres.q))
    /\ [][qres' # qres => Store' = Store]_vars

\* a request was answered from a store with rows in four fact relations
C16_Witness ==
    /\ qres # <<>>
    /\ qres.q.op = "yield_and_risk_relation"
    /\ qres.result # NoData
    /\ qres.result.hist_max_wapr # NULL
    /\ commodities # <<>> /\ countries # <<>> /\ raw_ingest # <<>>
    /\ facts["climate_risk_by_country"] # <<>>

----------------------------------------------------------------------------
(* Most similar year, and yield against risk *)

\* Similar-year rows of the global scope and of one country for two seasons,
\* one without a season year, and aggregates for some of them
SimilarRecords ==
    [f \in 0..Len(ENDPOINTS) |->
        CASE f = 4 -> {"g1", "t2"}
          [] f = 5 -> {"m1", "m3", "y1", "y2", "y3"}
          [] OTHER -> {}]

SimilarRequests ==
    {Request(op, JStr(Rice), cc, 0, 0, sc)
        : op \in {"most_similar_year", "yield_and_risk_relation"},
          cc \in {None, JStr(CodeIN)}, sc \in Scopes}

SpecSimilar == InitQuery /\ [][NextQuery(SimilarRecords, SimilarRequests)]_vars

\* the most_similar_year rows of the commodity called name and the country
\* of the given stored code, straight from the relations
SimilarOf(name, code) ==
    LET m == facts["most_similar_year"] IN
    {i \in DOMAIN m :
        /\ code # NULL
        /\ \E c \in DOMAIN commodities :
              m[i].commodity_id = V(c) /\ commodities[c].name = V(name)
        /\ \E c \in DOMAIN countries :
              m[i].country_id = V(c) /\ countries[c].code = code}

\* the rows of S with the greatest season year
MostRecent(S) ==
    LET m == facts["most_similar_year"] IN
    {i \in S : \A j \in S : ~LessV(m[i].this_growing_season_year,
                                   m[j].this_growing_season_year)}

\* the country code request q asks for: its own under the scope "country",
\* 'GLB' under the scope "global"
RequestedCode(q) ==
    IF q.scope = "country" THEN Bind(q.country_code) ELSE V(GLB)

\* C19: get_most_similar_year returns, for the commodity, the row with the
\* greatest this_growing_season_year among the rows of the requested country
\* code under the scope "country" and among the rows of "GLB" under the scope
\* "global"; a country-scoped request never gets a row of another country
C19_SimilarYearScope ==
    [][(qres' # qres /\ qres'.q.op = "most_similar_year")
        => LET m == facts["most_similar_year"]
               q == qres'.q
               r == qres'.result
               S == SimilarOf(q.commodity.s, RequestedCode(q))
           IN  /\ r = NoData <=> S = {}
               /\ r # NoData =>
                     /\ r.country_code = RequestedCode(q)
                     /\ \E i \in MostRecent(S) : r.m = m[i]]_vars

\* C20: get_yield_and_risk_relation returns the most_similar_year row with
\* the greatest this_growing_season_year for the commodity and scope, also
\* when risk_global_avg_max has no row for the same commodity, country and
\* year: then hist_avg_wapr and hist_max_wapr are empty; when it has one,
\* its values are returned
C20_YieldLeftJoin ==
    [][(qres' # qres /\ qres'.q.op = "yield_and_risk_relation")
        => LET m == facts["most_similar_year"]
               g == facts["risk_global_avg_max"]
               q == qres'.q
               r == qres'.result
               S == SimilarOf(q.commodity.s, RequestedCode(q))
           IN  S # {} =>
                 /\ r # NoData
                 /\ \E i \in MostRecent(S) :
                       LET G == {j \in DOMAIN g :
                                   /\ g[j].commodity_id = m[i].commodity_id
                                   /\ g[j].country_id = m[i].country_id
                                   /\ g[j].year # NULL
                                   /\ g[j].year = m[i].this_growing_season_year}
                       IN  /\ r.this_growing_season_year
                                = m[i].this_growing_season_year
                           /\ r.total_yield = m[i].total_yield
                           /\ r.yield_rating = m[i].yield_rating
                           /\ G = {} => /\ r.hist_avg_wapr = NULL
                                        /\ r.hist_max_wapr = NULL
                           /\ G # {} => \E j \in G :
                                 /\ r.hist_avg_wapr = g[j].hist_avg_wapr
                                 /\ r.hist_max_wapr = g[j].hist_max_wapr]_vars

\* the country's latest season has no aggregate while an earlier year of the
\* country has one, and the answer carries the yield with empty risk fields
C20_Witness ==
    /\ qres # <<>>
    /\ qres.q.op = "yield_and_risk_relation"
    /\ qres.q.scope = "country" /\ qres.q.country_code = JStr(CodeIN)
    /\ qres.result # NoData
    /\ qres.result.this_growing_season_year = V(2025)
    /\ qres.result.total_yield = V(33)
    /\ qres.result.hist_max_wapr = NULL
    /\ \E j \in DOMAIN facts["risk_global_avg_max"] :
          /\ facts["risk_global_avg_max"][j].year = V(2024)
          /\ facts["risk_global_avg_max"][j].hist_max_wapr = V(420)

----------------------------------------------------------------------------
(* The regional comparison as a comparison of two means *)

\* Rows of the EU for two years and two commodities, with a current value,
\* with the value 0 and without one
EuRecords ==
    [f \in 0..Len(ENDPOINTS) |->
        IF f = 1 THEN {"e1", "e2", "e3", "e4", "e5"} ELSE {}]

EuRequests ==
    {Request("eu_risk_comparison", JStr(Rice), None, y[1], y[2], "")
        : y \in Years \X Years}
    \cup {Request("eu_risk_comparison_overall", None, None, y[1], y[2], "")
            : y \in Years \X Years}

SpecEu == InitQuery /\ [][NextQuery(EuRecords, EuRequests)]_vars

\* the rows tagged EU that request q covers for a year and that carry a
\* current value: those of its commodity, or of every commodity for the
\* overall comparison
EuTagged(q, year) ==
    IF q.op = "eu_risk_comparison"
    THEN {i \in StoredRows(q.commodity.s, CodeEU, year) :
            facts["climate_risk_by_country"][i].this_year_avg_wapr # NULL}
    ELSE EuValues(year)

\* a number of the result of q as a quotient
Quot(q, x) == IF q.op = "eu_risk_comparison" THEN Frac(x, 1) ELSE x

\* the result r of the regional comparison q compares the two years' means
MeanRule(q, r) ==
    LET byc == facts["climate_risk_by_country"]
        cur == EuTagged(q, q.year)
        prev == EuTagged(q, q.previous_year)
        sc == SumOver(byc, cur, "this_year_avg_wapr")
        sp == SumOver(byc, prev, "this_year_avg_wapr")
        nc == Cardinality(cur)
        np == Cardinality(prev)
        d == sc * np - sp * nc
    IN  IF cur = {} \/ prev = {} THEN r = NoData
        ELSE /\ r # NoData
             /\ FracEq(Quot(q, r.current_avg_wapr[1]), Frac(sc, nc))
             /\ FracEq(Quot(q, r.previous_avg_wapr[1]), Frac(sp, np))
             /\ FracEq(Quot(q, r.delta[1]), Frac(d, nc * np))
             /\ IF sp = 0 THEN r.percent_change = NULL
                ELSE /\ r.percent_change # NULL
                     /\ FracEq(r.percent_change[1], Frac(d * 100, sp * nc))
             /\ r.trend = (IF d > 0 THEN "increased"
                           ELSE IF d < 0 THEN "decreased" ELSE "unchanged")

\* C21: the EU comparison of two years compares, for each year, the mean of
\* this_year_avg_wapr over the stored rows tagged EU (of the commodity, or of
\* all commodities in the overall variant): delta = current mean - previous
\* mean, percent = delta / previous * 100 or empty when previous is 0, trend
\* by the sign of delta, and no data when a year has no row with a value
C21_EuMeanComparison ==
    [][(qres' # qres
        /\ qres'.q.op \in {"eu_risk_comparison", "eu_risk_comparison_overall"})
        => MeanRule(qres'.q, qres'.result)]_vars

\* the overall comparison was served with a previous year whose mean is taken
\* over rows of two commodities with different values
C21_Witness ==
    /\ qres # <<>>
    /\ qres.q.op = "eu_risk_comparison_overall"
    /\ qres.q.year = 2025 /\ qres.q.previous_year = 2024
    /\ qres.result # NoData
    /\ FracEq(qres.result.previous_avg_wapr[1], Frac(150, 1))
    /\ FracEq(qres.result.delta[1], Frac(150, 1))
    /\ FracEq(qres.result.percent_change[1], Frac(100, 1))
    /\ qres.result.trend = "increased"
    /\ Cardinality({facts["climate_risk_by_country"][i].commodity_id
                      : i \in EuValues(2024)}) = 2

----------------------------------------------------------------------------
(* The order of the feeds within a run *)

\* every write of the pass of the current feed has completed: the feed
\* delivered no record, or the step upserts its last record after one audit
\* insert per record
PassComplete ==
    \/ pc = "fetch" /\ data' = <<>>
    \/ /\ pc = "upsert"
       /\ idx = Len(data)
       /\ lastCall'.outcome = "ok"
       /\ lastCall'.rec = data[idx]
       /\ Len(raw_ingest) = rawStart + Len(data) - rawFailed

\* the feeds fetched in the run are the configured ones up to the current
\* feed, which is not yet fetched while its fetch is pending
FetchedInOrder ==
    feed # 0 => fetched = 1..(IF pc = "fetch" THEN feed - 1 ELSE feed)

\* C22: within a run of main the feeds are ingested one after another in the
\* order of ENDPOINTS: control moves to the fetch of feed i+1 only at the
\* step that completes the last write of feed i, and every write, to a fact
\* relation or to the audit relation, belongs to the current feed, so writes
\* of two feeds of a run never interleave
C22_FeedsSequential ==
    /\ []FetchedInOrder
    /\ [][/\ (feed' # feed /\ runs' = runs)
              => /\ feed' = feed + 1
                 /\ pc' = "fetch"
                 /\ PassComplete
          /\ \A t \in Tables :
                facts'[t] # facts[t] => pc = "upsert" /\ t = FeedName(feed)
          /\ raw_ingest' # raw_ingest
              => /\ pc = "raw"
                 /\ raw_ingest'[Len(raw_ingest')].endpoint_name = FeedName(feed)
          /\ (pc = "fetch" /\ pc' \in {"raw", "upsert"}) => feed' = feed
         ]_vars

\* a run of main has ended in which two feeds wrote their records, the audit
\* row of the first before that of the second
C22_Witness ==
    /\ pc = "done"
    /\ runs = 1
    /\ facts[ENDPOINTS[1]] # <<>>
    /\ facts[ENDPOINTS[2]] # <<>>
    /\ Len(raw_ingest) = 2
    /\ raw_ingest[1].endpoint_name = ENDPOINTS[1]
    /\ raw_ingest[2].endpoint_name = ENDPOINTS[2]
    /\ raw_ingest[1].ingested_at < raw_ingest[2].ingested_at

----------------------------------------------------------------------------
(* Field coercion during ingestion *)

\* Records whose numeric and boolean fields hold numbers, numeric strings,
\* other strings, "null", the empty string, a list, nothing, and an infinite
\* number
CoerceRecords ==
    [f \in 0..Len(ENDPOINTS) |->
        CASE f = 1 -> {"a1", "a2", "x1", "x2", "x3"}
          [] f = 4 -> {"g3"}
          [] f = 5 -> {"m2"}
          [] OTHER -> {}]

NextCoerce ==
    \/ FetchOk(CoerceRecords)
    \/ RawInsert
    \/ UpsertRecord

SpecCoerce == InitIngest /\ [][NextCoerce]_vars

\* C23: coercion is total: for every value of a numeric or boolean field
\* safe_float / safe_int / to_bool return a number, 0/1 or absent and never
\* raise, so every record of a feed is upserted, with the fields that do not
\* parse absent, and the records after it are processed
C23_CoercionTotal ==
    [][pc = "upsert" =>
        LET t == FeedName(feed)
            r == Record(data[idx])
            row == MakeRow(t, r, lastCall'.commodity_id, lastCall'.country_id)
        IN  /\ \A c \in Columns(t) : row[c] # OverflowError
            /\ pc' # "aborted"
            /\ \E i \in DOMAIN facts'[t] : facts'[t][i] = row
            /\ idx < Len(data) => pc' = "upsert" /\ idx' = idx + 1
      ]_vars

----------------------------------------------------------------------------
(* Upserts are committed one by one *)

\* Two records of one natural key with different values, ingested in up to
\* MaxRuns runs in which a resolver or an INSERT may raise
CommitRecords ==
    [f \in 0..Len(ENDPOINTS) |->
        IF f = 1 THEN {"a1", "a2"} ELSE {}]

InitCommit == IngestInit({1}, MaxFaults, MaxStored)

NextCommit ==
    \/ FetchOk(CommitRecords)
    \/ RawInsert
    \/ UpsertRecord
    \/ Restart({1})

SpecCommit == InitCommit /\ [][NextCommit]_vars

\* row is, column by column, what the upsert of record id writes to table
\* t, under the ids the resolvers returned for it
IsRowOf(t, row, id) ==
    row = MakeRow(t, Record(id), row.commodity_id[1], row.country_id[1])

\* what decides the natural key of record id: its commodity, the country
\* code derived from it and its coerced year or date
RecKey(t, id) ==
    <<Get(Record(id), "commodity"), CountryArgs(t, Record(id)).code,
      [c \in KeyCols(t) \ {"commodity_id", "country_id"} |->
          Coerce(Kind(t)[c], Get(Record(id), c))]>>

\* every stored fact row is entirely the row of one record
RowsWhole ==
    \A f \in 1..Len(ENDPOINTS) : \A i \in DOMAIN facts[ENDPOINTS[f]] :
        \E id \in CommitRecords[f] :
            IsRowOf(ENDPOINTS[f], facts[ENDPOINTS[f]][i], id)

\* the records of the pass before position idx are stored: for each of them
\* a row holds the values of the last record among them that carries its
\* key (a row left without a country by a failed country INSERT is not
\* overwritten by later records and keeps the values of its own record)
PrefixStored ==
    pc \in {"upsert", "aborted"} =>
        LET t == FeedName(feed) IN
        \A j \in 1..(idx - 1) :
            \E i \in DOMAIN facts[t], k \in j..(idx - 1) :
                /\ RecKey(t, data[k]) = RecKey(t, data[j])
                /\ IsRowOf(t, facts[t][i], data[k])
                /\ \A m \in (k + 1)..(idx - 1) :
                      RecKey(t, data[m]) = RecKey(t, data[k])
                      => facts[t][i].country_id = V(0)

\* C24: each upsert is committed on its own: when the resolution or the
\* upsert of record i of a pass raises, the rows written for the records
\* before i stay stored with their values, nothing is written for the
\* records from i on, and every stored fact row is entirely the row of one
\* record, never a mix of two
C24_UpsertsCommittedSingly ==
    /\ [](RowsWhole /\ PrefixStored)
    /\ [][/\ (pc = "upsert" /\ pc' = "aborted")
              => facts' = facts /\ idx' = idx /\ data' = data
          /\ pc = "aborted" => facts' = facts /\ pc' \in {"aborted", "fetch"}
          /\ (pc = "upsert" /\ pc' # "aborted")
              => LET t == FeedName(feed) IN
                 /\ \E i \in DOMAIN facts'[t] :
                       facts'[t][i] = MakeRow(t, Record(data[idx]),
                                              lastCall'.commodity_id,
                                              lastCall'.country_id)
                 /\ \A u \in Tables \ {t} : facts'[u] = facts[u]
         ]_vars

\* a pass that overwrote a stored row with its first record raised at its
\* second one: the row holds the first record's values
C24_Witness ==
    /\ pc = "aborted"
    /\ runs = 2
    /\ data = <<"a2", "a1">>
    /\ idx = 2
    /\ lastCall.rec = "a1"
    /\ lastCall.outcome = "upsert_raised"
    /\ Len(facts["climate_risk_by_country"]) = 1
    /\ IsRowOf("climate_risk_by_country",
               facts["climate_risk_by_country"][1], "a2")
    /\ facts["climate_risk_by_country"][1].this_year_avg_wapr = V(380)
    /\ Len(raw_ingest) = 3

----------------------------------------------------------------------------
(* Entity rows stay as created *)

\* Records of one country code under two names and without a name, of a
\* commodity whose name has capitals and a space, and records whose country
\* code is derived or defaulted, ingested in up to MaxRuns runs
EntityRecords ==
    [f \in 0..Len(ENDPOINTS) |->
        CASE f = 1 -> {"a1", "k1", "k2"}
          [] f = 3 -> {"c1"}
          [] f = 4 -> {"g1"}
          [] OTHER -> {}]

NextEntity ==
    \/ FetchOk(EntityRecords)
    \/ RawInsert
    \/ UpsertRecord
    \/ Restart({1})

SpecEntity == InitIngest /\ [][NextEntity]_vars

\* slug is name in lower case with every space turned into an underscore
IsSlugOf(slug, name) ==
    /\ Len(slug) = Len(name)
    /\ \A j \in DOMAIN name :
          slug[j] = IF name[j] = " " THEN "_" ELSE LowerCh(name[j])

\* tbl is a prefix of tbl2: no row deleted, no row changed
Extends(tbl2, tbl) ==
    Len(tbl2) >= Len(tbl) /\ SubSeq(tbl2, 1, Len(tbl)) = tbl

\* C25: Commodity and Country rows are never deleted or changed once
\* created: every step leaves the stored rows as they are; a commodity's
\* slug is its name lowercased with spaces replaced by underscores, and a
\* country created for a record carries that record's name (the code when it
\* has none) and keeps it when later records bring the code with another
\* name
C25_EntitiesImmutable ==
    /\ [](\A i \in DOMAIN commodities :
            IsSlugOf(commodities[i].slug[1], commodities[i].name[1]))
    /\ [][/\ Extends(commodities', commodities)
          /\ Extends(countries', countries)
          /\ Len(countries') > Len(countries)
              => LET args == CountryArgs(FeedName(feed), Record(data[idx])) IN
                 /\ Len(countries') = Len(countries) + 1
                 /\ countries'[Len(countries')].code = Bind(args.code)
                 /\ countries'[Len(countries')].name
                      = IF Truthy(args.name) THEN Bind(args.name)
                        ELSE Bind(args.code)
         ]_vars

\* a record that names the stored country differently has been upserted and
\* the country still has the name of its creation; the commodity it created
\* has its slug
C25_Witness ==
    /\ lastCall.rec = "k1"
    /\ lastCall.outcome = "ok"
    /\ lastCall.country_id \in DOMAIN countries
    /\ countries[lastCall.country_id].name = V(India)
    /\ countries[lastCall.country_id].code = V(CodeIN)
    /\ lastCall.commodity_id \in DOMAIN commodities
    /\ commodities[lastCall.commodity_id].name = V(PalmOil)
    /\ commodities[lastCall.commodity_id].slug
         = V(<<"p","a","l","m","_","o","i","l">>)

----------------------------------------------------------------------------
(* Records without a commodity *)

\* Complete records and records that lack the commodity field
MissingRecords ==
    [f \in 0..Len(ENDPOINTS) |->
        CASE f = 1 -> {"a1", "a2", "n1"}
          [] f = 2 -> {"b1", "b2"}
          [] f = 3 -> {"c1", "n3"}
          [] f = 4 -> {"g1"}
          [] f = 5 -> {"m1"}]

NextMissing ==
    \/ FetchOk(MissingRecords)
    \/ RawInsert
    \/ UpsertRecord

SpecMissing == InitIngest /\ [][NextMissing]_vars

\* C26: ingest_endpoint never calls get_or_create_commodity with an absent
\* name: a record without the commodity field does not reach the resolver
\* with None, and it does not end the pass before the feed's other records
\* are ingested
C26_CommodityNamePresent ==
    /\ [](lastCall.outcome # "none" => lastCall.commodity # None)
    /\ [][pc = "upsert" => pc' # "aborted"]_vars

----------------------------------------------------------------------------
(* Referential integrity *)

\* C27: the commodity_id and country_id of every stored fact row are ids of
\* stored Commodity and Country rows, and a record is never upserted under
\* an id, such as 0, that belongs to no row, whatever its commodity,
\* country_code and country_name are
C27_ReferentialIntegrity ==
    /\ \A t \in Tables : \A i \in DOMAIN facts[t] :
          /\ facts[t][i].commodity_id[1] \in DOMAIN commodities
          /\ facts[t][i].country_id[1] \in DOMAIN countries
    /\ lastCall.outcome = "ok"
       => /\ lastCall.commodity_id \in DOMAIN commodities
          /\ lastCall.country_id \in DOMAIN countries

----------------------------------------------------------------------------
(* Country codes derived from names *)

\* Snapshots of one commodity and date for three countries, two of which
\* share their first three letters, and records of two other feeds
DerivedRecords ==
    [f \in 0..Len(ENDPOINTS) |->
        CASE f = 1 -> {"a1"}
          [] f = 3 -> {"c1", "c2", "c5", "c6"}
          [] f = 4 -> {"g1"}
          [] OTHER -> {}]

NextDerived ==
    \/ FetchOk(DerivedRecords)
    \/ RawInsert
    \/ UpsertRecord

SpecDerived == InitIngest /\ [][NextDerived]_vars

\* C28: in the ingestion of risk_current_vs_hist a record is stored under
\* the Country entity of its own country_name and leaves the rows of every
\* other country as they are: records of the same commodity and date_on with
\* different country_name values end up in distinct rows of distinct
\* countries
C28_DerivedCodesDistinct ==
    [][(UpsertStep /\ FeedName(feed) = "risk_current_vs_hist"
        /\ Truthy(Get(Record(data[idx]), "country_name")))
        => LET t == FeedName(feed)
               nm == Bind(Get(Record(data[idx]), "country_name"))
           IN  /\ lastCall'.country_id \in DOMAIN countries'
               /\ countries'[lastCall'.country_id].name = nm
               /\ \A i \in DOMAIN facts[t] :
                     (/\ facts[t][i].country_id[1] \in DOMAIN countries
                      /\ countries[facts[t][i].country_id[1]].name # nm)
                     => facts'[t][i] = facts[t][i]
      ]_vars

----------------------------------------------------------------------------
(* Audit rows are written before the upserts *)

\* one audit insert has been attempted for every record of the pass
AllLogged == Len(raw_ingest) = rawStart + Len(data) - rawFailed

\* C29: in a pass the audit inserts of all records are attempted before the
\* first entity resolution or upsert: a step that resolves or upserts finds
\* one attempt per record behind it and writes no audit row; so when an
\* upsert raises at record i, the audit rows of all records of the pass,
\* those after i included, are stored (less the inserts that raised)
C29_AuditBeforeUpserts ==
    /\ [](pc \in {"upsert", "aborted"} =>
            /\ AllLogged
            /\ rawFailed = 0 =>
                  \A j \in DOMAIN data :
                     /\ raw_ingest[rawStart + j].payload = data[j]
                     /\ raw_ingest[rawStart + j].endpoint_name = FeedName(feed)
                     /\ raw_ingest[rawStart + j].ingested_at = now)
    /\ [][(\/ commodities' # commodities \/ countries' # countries
           \/ facts' # facts \/ lastCall' # lastCall)
          => /\ pc = "upsert"
             /\ AllLogged
             /\ raw_ingest' = raw_ingest]_vars

\* the upsert of the first of two records raised: nothing is upserted and
\* both records have their audit row
C29_Witness ==
    /\ pc = "aborted"
    /\ Len(data) = 2
    /\ idx = 1
    /\ lastCall.outcome = "upsert_raised"
    /\ facts = EmptyFacts
    /\ Len(raw_ingest) = 2
    /\ raw_ingest[1].payload = data[1]
    /\ raw_ingest[2].payload = data[2]

----------------------------------------------------------------------------
(* Countries of a top-k answer *)

\* the countries that have data for a top-k request: a row of the commodity
\* and, for the ranking by current risk, a current value in it
CountriesWithData(q) ==
    {CodeOfRow(i) : i \in
        {j \in RowsOfCommodity(q.commodity.s) :
            q.op = "top_k_highest_current_risk"
            => facts["climate_risk_by_country"][j].this_year_avg_wapr # NULL}}

\* C30: in the results of get_top_k_lowest_hist_risk and
\* get_top_k_highest_current_risk each country appears at most once, and the
\* answer names k distinct countries whenever at least k countries have data
\* for the commodity, also when a country has rows for several years
C30_TopKDistinctCountries ==
    [][(/\ qres' # qres
        /\ qres'.q.op \in {"top_k_lowest_hist_risk",
                            "top_k_highest_current_risk"})
        => LET q == qres'.q
               list == qres'.result.rows
           IN  /\ \A a, b \in DOMAIN list :
                     list[a].country_code = list[b].country_code => a = b
               /\ Cardinality(CountriesWithData(q)) >= q.k
                  => Cardinality({list[n].country_code : n \in DOMAIN list})
                       = q.k
      ]_vars

====
